---- MODULE Spec2Model ----
(***************************************************************************)
(* Career-analysis workflow (backend/app/workflows/analysis_workflow.py),  *)
(* the agent wrapper it calls (backend/app/agents/base_agent.py) and the   *)
(* background task that runs it (backend/app/api/routes.py, analyze).      *)
(*                                                                         *)
(* Execution model.  The workflow runs on one asyncio event loop.  Every   *)
(* step has its own FIFO queue and num_workers worker tasks.  A handler    *)
(* runs without interruption between two points where it really suspends:  *)
(* the agent call (agent.process) and the progress broadcasts.  The        *)
(* ctx.store get/set calls take an uncontended lock and hand out the       *)
(* stored object itself, so the code between two suspensions is one        *)
(* action here, and a list or dict obtained from the store is the stored   *)
(* list or dict.                                                           *)
(***************************************************************************)
EXTENDS Bags, FiniteSets, Integers, Sequences, TLC

\* ---------------------------------------------------------------- bounds
MaxJobs == 2            \* longest job_ids list of a start event
TickSeconds == 300      \* seconds that pass in one Tick
MaxFirings == 4         \* most barrier firings explored in one run
MaxFailures == 1        \* most agent calls that raise in one run
MaxUploads == 3         \* upload_job_description requests on the session
MaxAnalyzeRequests == 3 \* analyze requests on the session
MaxLimit == 2           \* largest RateLimiter limit
MaxWindow == 2          \* largest RateLimiter window_seconds
MaxTime == 4            \* last second of the limiter's clock
MaxCapacity == 2        \* largest session capacity of a SessionManager
MaxCreated == 3         \* sessions created in one behaviour
MaxHours == 4           \* last hour of the session clock
MaxBroadcasts == 1      \* broadcast_agent_progress calls in one behaviour

\* ------------------------------------------------------ program constants
WorkflowTimeout == 600  \* CareerAnalysisWorkflow(timeout=600)
MAX_JDS_PER_SESSION == 5 \* SessionManager.MAX_JDS_PER_SESSION
SESSION_EXPIRY_HOURS == 1 \* SessionManager.SESSION_EXPIRY_HOURS

JobIds == {"j1", "j2"}
NoJob == "-"

\* num_workers of every step (the @step decorator's default is 4)
NumWorkers ==
  [ start |-> 4, parse_resume |-> 4, analyze_jd |-> 4, collect_phase1 |-> 4,
    match_skills |-> 5, collect_phase2 |-> 4,
    generate_recommendations |-> 3, generate_interview_prep |-> 3,
    generate_market_insights |-> 3, finalize |-> 4 ]

WorkSteps == { "parse_resume", "analyze_jd", "match_skills",
               "generate_recommendations", "generate_interview_prep",
               "generate_market_insights" }
Collectors == { "collect_phase1", "collect_phase2", "finalize" }
Steps == {"start"} \cup WorkSteps \cup Collectors

\* the step whose signature accepts an event type
StepFor(type) ==
  CASE type = "StartAnalysisEvent"           -> "start"
    [] type = "ResumeParseEvent"             -> "parse_resume"
    [] type = "JDAnalyzeEvent"               -> "analyze_jd"
    [] type = "ResumeParseResultEvent"       -> "collect_phase1"
    [] type = "JDAnalyzeResultEvent"         -> "collect_phase1"
    [] type = "SkillMatchEvent"              -> "match_skills"
    [] type = "SkillMatchResultEvent"        -> "collect_phase2"
    [] type = "GenerateRecommendationsEvent" -> "generate_recommendations"
    [] type = "GenerateInterviewPrepEvent"   -> "generate_interview_prep"
    [] type = "GenerateMarketInsightsEvent"  -> "generate_market_insights"
    [] type = "RecommendationResultEvent"    -> "finalize"
    [] type = "InterviewPrepResultEvent"     -> "finalize"
    [] type = "MarketInsightsResultEvent"    -> "finalize"

\* a finalize whose signature lacks MarketInsightsResultEvent
accepts_two_results(step) ==
  CASE step = "start" -> {"StartAnalysisEvent"}
    [] step = "parse_resume" -> {"ResumeParseEvent"}
    [] step = "analyze_jd" -> {"JDAnalyzeEvent"}
    [] step = "collect_phase1" ->
         {"ResumeParseResultEvent", "JDAnalyzeResultEvent"}
    [] step = "match_skills" -> {"SkillMatchEvent"}
    [] step = "collect_phase2" -> {"SkillMatchResultEvent"}
    [] step = "generate_recommendations" -> {"GenerateRecommendationsEvent"}
    [] step = "generate_interview_prep" -> {"GenerateInterviewPrepEvent"}
    [] step = "generate_market_insights" -> {"GenerateMarketInsightsEvent"}
    [] step = "finalize" ->
         {"RecommendationResultEvent", "InterviewPrepResultEvent"}

\* the event types in the annotation of a step's ev parameter
accepts(step) ==
  CASE step = "start" -> {"StartAnalysisEvent"}
    [] step = "parse_resume" -> {"ResumeParseEvent"}
    [] step = "analyze_jd" -> {"JDAnalyzeEvent"}
    [] step = "collect_phase1" ->
         {"ResumeParseResultEvent", "JDAnalyzeResultEvent"}
    [] step = "match_skills" -> {"SkillMatchEvent"}
    [] step = "collect_phase2" -> {"SkillMatchResultEvent"}
    [] step = "generate_recommendations" -> {"GenerateRecommendationsEvent"}
    [] step = "generate_interview_prep" -> {"GenerateInterviewPrepEvent"}
    [] step = "generate_market_insights" -> {"GenerateMarketInsightsEvent"}
    [] step = "finalize" ->
         {"RecommendationResultEvent", "InterviewPrepResultEvent",
          "MarketInsightsResultEvent"}

\* the event types in a step's return annotation (None left out)
returns(step) ==
  CASE step = "start" ->
         {"ResumeParseEvent", "JDAnalyzeEvent", "SkillMatchEvent"}
    [] step = "parse_resume" -> {"ResumeParseResultEvent"}
    [] step = "analyze_jd" -> {"JDAnalyzeResultEvent"}
    [] step = "collect_phase1" -> {"SkillMatchEvent"}
    [] step = "match_skills" -> {"SkillMatchResultEvent"}
    [] step = "collect_phase2" ->
         {"GenerateRecommendationsEvent", "GenerateInterviewPrepEvent",
          "GenerateMarketInsightsEvent"}
    [] step = "generate_recommendations" -> {"RecommendationResultEvent"}
    [] step = "generate_interview_prep" -> {"InterviewPrepResultEvent"}
    [] step = "generate_market_insights" -> {"MarketInsightsResultEvent"}
    [] step = "finalize" -> {"StopEvent"}

\* ------------------------------------------------------------ agent data
\* A dict produced by an agent: who produced it and the missing_skills it
\* lists.  EmptyDict is {} (what process returns on failure), NoneVal None.
Data(for, missing) == [for |-> for, empty |-> FALSE, missing_skills |-> missing]
EmptyDict == [for |-> "{}", empty |-> TRUE, missing_skills |-> << >>]
NoneVal == [for |-> "None", empty |-> TRUE, missing_skills |-> << >>]

\* what _execute may do
Outcomes == {"ok", "ValueError", "Exception"}

\* the missing_skills a successful SkillMatcherAgent reports for a job ("" is
\* a skill entry without a name); the two jobs share the gap "s1"
missing_skills_of(job_id) ==
  IF job_id = "j1" THEN <<"s1">> ELSE <<"s2", "", "s1">>

\* --------------------------------------------------------------- events
Event(type, job_id, data) == [type |-> type, job_id |-> job_id, data |-> data]
Work(type, job_id) == Event(type, job_id, NoneVal)
\* an event without its payload: the sub-task it belongs to
Key(ev) == [type |-> ev.type, job_id |-> ev.job_id]

\* ------------------------------------------------- dict and list helpers
Range(s) == { s[i] : i \in DOMAIN s }
DictSet(d, k, v) == [x \in (DOMAIN d) \cup {k} |-> IF x = k THEN v ELSE d[x]]
EmptyMap == [x \in {} |-> NoneVal]
Injective(s) == \A i, j \in DOMAIN s : s[i] = s[j] => i = j

RECURSIVE SeqsUpTo(_, _)
SeqsUpTo(S, n) ==
  IF n = 0 THEN { << >> }
  ELSE LET shorter == SeqsUpTo(S, n - 1)
       IN  shorter \cup { Append(s, x) : s \in shorter, x \in S }

\* ----------------------------------------------------------------- state
VARIABLES
  caller,       \* who runs the workflow: "analyze" (the route) or "direct"
  start_event,  \* the StartAnalysisEvent of the run
  run_state,    \* "idle", "running", "completed", "timeout", "error"
  store,        \* ctx.store
  queues,       \* per step: events waiting for a worker
  running,      \* per work step: events whose handler awaits its agent
  firing,       \* per collector: invocations suspended in a broadcast
  fired,        \* per collector: invocations that found their phase complete
  sent,         \* bag of the keys of all events sent so far
  returned,     \* bag of the work events whose agent call returned or raised
  failed,       \* bag of the work events whose agent call raised
  reported,     \* skill names reported missing by finished match handlers
  result,       \* the StopEvent's result
  clock,        \* seconds since workflow.run was called
  session,      \* the session in the SessionManager
  task,         \* position of the background task run_analysis
  ws,           \* the WebSocket layer: "up", or "down" (every delivery raises)
  announced,    \* the analysis_complete messages run_analysis has broadcast
  ag_agents,    \* per job: where the process call of its SkillMatcherAgent is
                \* and the report_progress calls its _execute has made
  api_session,  \* the SessionData the API requests work on
  api_tasks,    \* analysis ids whose run_analysis task has not finished
  api_uploads,  \* per upload_job_description request: its position or response
  api_analyze,  \* analyze requests handled so far and the last response
  rl_config,    \* RateLimiter.limit and .window_seconds
  rl_entries,   \* RateLimiter._entries: session id -> RateLimitEntry
  rl_now,       \* time.time(), in seconds
  rl_last,      \* the last RateLimiter call and what check answered
  rl_granted,   \* for the observed session: times of the checks allowed
                \* within the last window_seconds and since the last reset
  rl_after_reset, \* for the observed session: the count the last reset met
                \* and the checks made since, or NotReset
  sm_capacity,  \* SessionManager.MAX_SESSIONS ("configurable limits")
  sm_sessions,  \* SessionManager._sessions: session id -> SessionData
  sm_now,       \* datetime.utcnow(), in hours
  sm_expires,   \* expires_at of every session created so far, by id
  sm_held,      \* the SessionData objects requests and tasks hold
  sm_last,      \* the last direct call of the store and whether it found
                \* the session
  sd_agent_progress, \* SessionData.agent_progress of each session object:
                \* (agent_name, status, progress) in insertion order
  cm_active,    \* ConnectionManager._active_connections
  cm_clients,   \* per client: its websocket_progress handler and what the
                \* client has received
  cm_broadcast, \* the broadcast_agent_progress in flight, or NoBroadcast
  cm_broadcasts \* broadcast_agent_progress calls made so far

\* the session as the API requests see it
api_vars == << api_session, api_tasks, api_uploads, api_analyze >>

\* the rate limiter and what is recorded about its calls
rl_vars == << rl_config, rl_entries, rl_now, rl_last, rl_granted,
              rl_after_reset >>

\* the session store and what is recorded about its sessions
sm_vars == << sm_capacity, sm_sessions, sm_now, sm_expires, sm_held, sm_last >>

\* the WebSocket connections and the progress they are told
cm_vars == << sd_agent_progress, cm_active, cm_clients, cm_broadcast,
              cm_broadcasts >>

\* the variables no step of a workflow run or of its background task
\* changes, but for the announcements of the task's last step
quiet == << ws, api_vars, rl_vars, sm_vars, cm_vars, ag_agents >>
outside == << quiet, announced >>

vars == << caller, start_event, run_state, store, queues, running, firing,
           fired, sent, returned, failed, reported, result, clock, session,
           task, outside >>

\* ----------------------------------------------------- progress broadcasts
\* broadcast_agent_progress: what a delivery does
deliver == IF ws = "up" THEN "delivered" ELSE "raises"

\* a broadcast wrapper without its try/except
broadcast_status_unguarded(delivery) ==
  IF delivery = "raises" THEN "raised" ELSE "returned"

\* BaseAgent._broadcast_status: an exception of the delivery is logged
broadcast_status(delivery) == "returned"

\* broadcast_workflow_progress: an exception of the delivery is logged
broadcast_workflow_progress(delivery) == "returned"

\* a process that lets the exception of _execute through
process_reraises(outcome, result_data) ==
  [success |-> outcome = "ok",
   data |-> IF outcome = "ok" THEN result_data ELSE EmptyDict,
   errors |-> IF outcome = "ok" THEN << >> ELSE << outcome >>,
   raised |-> outcome # "ok"]

\* BaseAgent.process: _execute's result or exception becomes an AgentOutput.
\* The broadcasts of the try block raise into its except clauses; the
\* broadcast of an except clause raises out of process (raised).
process(outcome, result_data) ==
  LET in_try == IF broadcast_status(deliver) = "raised"
                  THEN "Exception" ELSE outcome
      leaves == broadcast_status(deliver) = "raised"
  IN  CASE in_try = "ok" ->
             [success |-> TRUE, data |-> result_data, errors |-> << >>,
              raised |-> FALSE]
        [] in_try = "ValueError" ->
             [success |-> FALSE, data |-> EmptyDict,
              errors |-> <<"ValueError">>, raised |-> leaves]
        [] OTHER ->
             [success |-> FALSE, data |-> EmptyDict,
              errors |-> <<"Agent error">>, raised |-> leaves]

\* ----------------------------------------------------------- start input
\* job_texts is None or a dict, given by its keys in insertion order
NoTexts == [none |-> TRUE, keys |-> << >>]
Texts(keys) == [none |-> FALSE, keys |-> keys]

\* Job ids are opaque strings, so a start event is taken up to their
\* renaming: a non-empty job_ids starts with "j1".
StartInputs ==
  [ job_ids : { s \in SeqsUpTo(JobIds, MaxJobs) : s # << >> => s[1] = "j1" },
    resume_text : BOOLEAN,          \* TRUE: a text is given, FALSE: None
    job_texts : {NoTexts} \cup
                { Texts(k) : k \in { s \in SeqsUpTo(JobIds, Cardinality(JobIds)) :
                                       Injective(s) } } ]

\* run_analysis builds its start event from the session: the keys of
\* job_descriptions (distinct, at least one) and no texts
RouteInputs ==
  { i \in StartInputs : /\ ~i.resume_text
                        /\ i.job_texts = NoTexts
                        /\ i.job_ids # << >>
                        /\ Injective(i.job_ids) }

EmptyStore ==
  [ job_ids |-> << >>, completed_steps |-> EmptyBag, parsed_jobs |-> EmptyMap,
    skill_matches |-> EmptyMap, all_skill_gaps |-> << >>,
    needs_resume_parsing |-> FALSE, needs_jd_parsing |-> FALSE,
    parsed_resume |-> NoneVal, recommendations |-> NoneVal,
    interview_prep |-> NoneVal, market_insights |-> NoneVal ]

NoResult ==
  [ success |-> FALSE, job_matches |-> EmptyBag, recommendations |-> NoneVal,
    interview_prep |-> NoneVal, market_insights |-> NoneVal ]

\* an agent whose process has not been called
NotCalled == [at |-> "waiting", reports |-> 0]

\* the state before workflow.run is called
Fresh ==
  /\ run_state = "idle"
  /\ store = EmptyStore
  /\ queues = [s \in Steps |-> << >>]
  /\ running = [s \in WorkSteps |-> EmptyBag]
  /\ firing = [s \in Collectors |-> 0]
  /\ fired = [s \in Collectors |-> 0]
  /\ sent = EmptyBag
  /\ returned = EmptyBag
  /\ failed = EmptyBag
  /\ reported = {}
  /\ result = NoResult
  /\ clock = 0
  /\ session = [exists |-> TRUE, analysis_status |-> "pending", has_results |-> FALSE]
  /\ task = "none"
  /\ announced = << >>
  /\ ag_agents = [job_id \in JobIds |-> NotCalled]

Uploads == 1..MaxUploads

\* no API request is modelled: the session of the request-level model is
\* absent
ApiAtRest ==
  /\ api_session = [exists |-> FALSE, resume_id |-> FALSE,
                    job_descriptions |-> {}, analysis_status |-> "pending", has_results |-> FALSE,
                    analysis_id |-> 0, analysis_started_at |-> 0]
  /\ api_tasks = {}
  /\ api_uploads = [r \in Uploads |-> "idle"]
  /\ api_analyze = [handled |-> 0, response |-> "none"]

RlSessions == {"s1", "s2"}
\* the session whose calls are recorded; the other one is other traffic
Observed == "s1"
NotReset == [was |-> -1, checks |-> -1]
NoCall == [op |-> "none", session_id |-> "s1", allowed |-> FALSE]

\* a RateLimiter nobody calls
LimiterAtRest ==
  /\ rl_config = [limit |-> 1, window_seconds |-> 1]
  /\ rl_entries = << >>
  /\ rl_now = 0
  /\ rl_last = NoCall
  /\ rl_granted = << >>
  /\ rl_after_reset = NotReset

NoLookup == [op |-> "none", session_id |-> 0, found |-> FALSE]

\* a SessionManager nobody calls
StoreAtRest ==
  /\ sm_capacity = 1
  /\ sm_sessions = << >>
  /\ sm_now = 0
  /\ sm_expires = << >>
  /\ sm_held = {}
  /\ sm_last = NoLookup

Clients == {"w1", "w2"}
NoBroadcast == [session_id |-> 0]
\* a client that has not connected
NoHandler == [session_id |-> 0, at |-> "idle", existed |-> FALSE,
              close_code |-> 0, cursor |-> 0, size |-> 0,
              received |-> << >>]

\* no WebSocket client and no broadcast
ConnectionsAtRest ==
  /\ sd_agent_progress = << >>
  /\ cm_active = << >>
  /\ cm_clients = [c \in Clients |-> NoHandler]
  /\ cm_broadcast = NoBroadcast
  /\ cm_broadcasts = 0

\* the workflow about to be run with any start event
Init ==
  /\ caller = "direct"
  /\ start_event \in StartInputs
  /\ Fresh
  /\ ws = "up"
  /\ ApiAtRest
  /\ LimiterAtRest
  /\ StoreAtRest
  /\ ConnectionsAtRest

\* a session with a resume and job descriptions, before POST /analyze
RouteInit ==
  /\ caller = "analyze"
  /\ start_event \in RouteInputs
  /\ Fresh
  /\ ws = "up"
  /\ ApiAtRest
  /\ LimiterAtRest
  /\ StoreAtRest
  /\ ConnectionsAtRest

\* ------------------------------------------------------------ dispatcher
\* ctx.send_event: the event joins the queue of the step that accepts it
send_event(q, ev) ==
  [q EXCEPT ![StepFor(ev.type)] = Append(@, ev)]

RECURSIVE SendSeq(_, _)
SendSeq(q, evs) ==
  IF evs = << >> THEN q ELSE SendSeq(send_event(q, Head(evs)), Tail(evs))

\* a handler that builds several events sends all but the first itself and
\* returns the first, which the engine sends when the handler returns
Dispatch(q, evs) ==
  IF evs = << >> THEN q ELSE SendSeq(q, Tail(evs) \o << Head(evs) >>)

RECURSIVE KeysBag(_)
KeysBag(evs) ==
  IF evs = << >> THEN EmptyBag
  ELSE SetToBag({Key(Head(evs))}) (+) KeysBag(Tail(evs))

Active == run_state = "running"

\* a worker of the step is free and an event waits in its queue
CanTake(step) ==
  /\ Active
  /\ queues[step] # << >>
  /\ IF step \in WorkSteps
       THEN BagCardinality(running[step]) < NumWorkers[step]
       ELSE step \in Collectors => firing[step] < NumWorkers[step]

\* No worker can take an event: every task of the loop that was ready has
\* run up to its next suspension.  The loop resumes a suspended handler
\* (an agent call or a broadcast that has finished) and fires timers only
\* then.
Quiescent == \A step \in Steps : ~CanTake(step)


\* ------------------------------------------------------- routes.analyze
\* POST /analyze: rejected with 404 without a session and with 409 while an
\* analysis is running; otherwise marks the session running and schedules
\* run_analysis as a background task
analyze ==
  /\ caller = "analyze"
  /\ task = "none"
  /\ session.exists
  /\ session.analysis_status # "running"
  /\ session' = [session EXCEPT !.analysis_status = "running"]
  /\ task' = "scheduled"
  /\ UNCHANGED << outside, caller, start_event, run_state, store, queues, running,
                  firing, fired, sent, returned, failed, reported, result, clock >>

\* workflow.run(start_event=...): a fresh context, the start event queued
workflow_run ==
  /\ run_state = "idle"
  /\ run_state' = "running"
  /\ store' = EmptyStore
  /\ queues' = send_event(queues, Work("StartAnalysisEvent", NoJob))
  /\ sent' = sent (+) SetToBag({Key(Work("StartAnalysisEvent", NoJob))})
  /\ clock' = 0
  /\ UNCHANGED << outside, caller, start_event, running, firing, fired, returned, failed,
                  reported, result, session >>

\* the background task starts the workflow
run_analysis ==
  /\ task = "scheduled"
  /\ task' = "awaiting"
  /\ workflow_run

\* get_workflow().run(...) called by other code than the route
run_direct ==
  /\ caller = "direct"
  /\ UNCHANGED task
  /\ workflow_run

\* ----------------------------------------------------------------- start
\* an exception leaves a handler: the engine ends the run and workflow.run
\* raises it
step_raises ==
  /\ run_state' = "error"
  /\ UNCHANGED << store, queues, running, firing, sent, result >>

needs_resume_parsing(ev) == ev.resume_text
needs_jd_parsing(ev) == ~ev.job_texts.none /\ Len(ev.job_texts.keys) > 0

\* one SkillMatchEvent per entry of job_ids, in list order
match_events(job_ids) ==
  [i \in 1..Len(job_ids) |-> Work("SkillMatchEvent", job_ids[i])]

\* the parse events start builds: the resume first, then one JD per key
parse_events(ev) ==
  (IF needs_resume_parsing(ev)
     THEN << Work("ResumeParseEvent", NoJob) >> ELSE << >>)
  \o
  (IF needs_jd_parsing(ev)
     THEN [i \in 1..Len(ev.job_texts.keys) |->
             Work("JDAnalyzeEvent", ev.job_texts.keys[i])]
     ELSE << >>)

start_events(ev) ==
  IF ~needs_resume_parsing(ev) /\ ~needs_jd_parsing(ev)
    THEN match_events(ev.job_ids)
    ELSE parse_events(ev)

start ==
  /\ CanTake("start")
  /\ LET ev == start_event
         evs == start_events(ev)
     IN  IF broadcast_workflow_progress(deliver) = "raised"
           THEN step_raises
           ELSE /\ store' = [EmptyStore EXCEPT
                               !.job_ids = ev.job_ids,
                               !.needs_resume_parsing = needs_resume_parsing(ev),
                               !.needs_jd_parsing = needs_jd_parsing(ev)]
                /\ queues' = Dispatch([queues EXCEPT !.start = Tail(@)], evs)
                /\ sent' = sent (+) KeysBag(evs)
                /\ UNCHANGED << run_state, running, firing, result >>
  /\ UNCHANGED << outside, caller, start_event, fired, returned, failed,
                  reported, clock, session, task >>

\* --------------------------------------------------------- work handlers
\* a worker takes the next event of its step and awaits agent.process
Begin(step) ==
  /\ CanTake(step)
  /\ queues' = [queues EXCEPT ![step] = Tail(@)]
  /\ running' = [running EXCEPT ![step] = @ (+) SetToBag({Head(queues[step])})]
  /\ UNCHANGED << outside, caller, start_event, run_state, store, firing, fired, sent,
                  returned, failed, reported, result, clock, session, task >>

\* a handler that returns nothing when its agent failed
handler_return_success_only(type, job_id, out) ==
  IF out.success THEN << Event(type, job_id, out.data) >> ELSE << >>

\* a handler that sends its result event and also returns it
handler_return_twice(type, job_id, out) ==
  << Event(type, job_id, out.data), Event(type, job_id, out.data) >>

\* the events a work handler returns once agent.process has returned
handler_return(type, job_id, out) == << Event(type, job_id, out.data) >>

\* agent.process has returned out for ev: the handler writes to the store
\* and returns its result event
Finish(step, ev, outcome, new_store, res_type, out) ==
  LET evs == handler_return(res_type, ev.job_id, out)
  IN  /\ outcome # "ok" => BagCardinality(failed) < MaxFailures
      /\ IF out.raised
           THEN step_raises
           ELSE /\ running' = [running EXCEPT ![step] = @ (-) SetToBag({ev})]
                /\ store' = new_store
                /\ queues' = SendSeq(queues, evs)
                /\ sent' = sent (+) KeysBag(evs)
                /\ UNCHANGED << run_state, firing, result >>
      /\ returned' = returned (+) SetToBag({Key(ev)})
      /\ failed' = IF outcome = "ok" THEN failed
                   ELSE failed (+) SetToBag({Key(ev)})
      /\ UNCHANGED << outside, caller, start_event, fired, clock, session, task >>

parse_resume_begin == Begin("parse_resume")

parse_resume ==
  /\ Active /\ Quiescent
  /\ \E ev \in BagToSet(running.parse_resume), outcome \in Outcomes :
       LET out == process(outcome, Data("resume", << >>))
       IN  /\ Finish("parse_resume", ev, outcome,
                     [store EXCEPT !.parsed_resume = out.data],
                     "ResumeParseResultEvent", out)
           /\ UNCHANGED reported

analyze_jd_begin == Begin("analyze_jd")

\* parsed_jobs[ev.job_id] = result.data
store_parsed_job(parsed_jobs, job_id, data) == DictSet(parsed_jobs, job_id, data)

analyze_jd ==
  /\ Active /\ Quiescent
  /\ \E ev \in BagToSet(running.analyze_jd), outcome \in Outcomes :
       LET out == process(outcome, Data(ev.job_id, << >>))
       IN  /\ Finish("analyze_jd", ev, outcome,
                     [store EXCEPT !.parsed_jobs =
                        store_parsed_job(@, ev.job_id, out.data)],
                     "JDAnalyzeResultEvent", out)
           /\ UNCHANGED reported

match_skills_begin == Begin("match_skills")

\* skill_matches = {ev.job_id: result.data}: a fresh dict per handler
store_match_fresh(skill_matches, job_id, data) == DictSet(EmptyMap, job_id, data)

\* skill_matches[ev.job_id] = result.data
store_match(skill_matches, job_id, data) == DictSet(skill_matches, job_id, data)

\* every named skill of missing that is not yet in all_gaps is appended
RECURSIVE aggregate_gaps(_, _)
aggregate_gaps(all_gaps, missing) ==
  IF missing = << >> THEN all_gaps
  ELSE LET skill_name == Head(missing)
       IN  aggregate_gaps(
             IF skill_name # "" /\ skill_name \notin Range(all_gaps)
               THEN Append(all_gaps, skill_name) ELSE all_gaps,
             Tail(missing))

match_skills ==
  /\ Active /\ Quiescent
  /\ \E ev \in BagToSet(running.match_skills), outcome \in Outcomes :
       LET out == process(outcome,
                          Data(ev.job_id, missing_skills_of(ev.job_id)))
       IN  /\ Finish("match_skills", ev, outcome,
                     [store EXCEPT
                        !.skill_matches = store_match(@, ev.job_id, out.data),
                        !.all_skill_gaps =
                           aggregate_gaps(@, out.data.missing_skills)],
                     "SkillMatchResultEvent", out)
           /\ reported' = reported \cup (Range(out.data.missing_skills) \ {""})

\* a phase-3 handler that does not write its result to the store
store_result_skipped(st, store_key, data) == st

\* ctx.store.set(<key>, result.data) of a phase-3 handler
store_result(st, store_key, data) == [st EXCEPT ![store_key] = data]

Generate(step, store_key, res_type) ==
  /\ Active /\ Quiescent
  /\ \E ev \in BagToSet(running[step]), outcome \in Outcomes :
       LET out == process(outcome, Data(store_key, ev.data.missing_skills))
       IN  /\ Finish(step, ev, outcome, store_result(store, store_key, out.data),
                     res_type, out)
           /\ UNCHANGED reported

generate_recommendations_begin == Begin("generate_recommendations")
generate_recommendations ==
  Generate("generate_recommendations", "recommendations",
           "RecommendationResultEvent")

generate_interview_prep_begin == Begin("generate_interview_prep")
generate_interview_prep ==
  Generate("generate_interview_prep", "interview_prep",
           "InterviewPrepResultEvent")

generate_market_insights_begin == Begin("generate_market_insights")
generate_market_insights ==
  Generate("generate_market_insights", "market_insights",
           "MarketInsightsResultEvent")


\* ------------------------------------------------------------ collectors
\* completed.append(key).  The handlers only append to completed_steps and
\* test membership, so the list is kept as the bag of its entries.
record_completion(completed, key) == completed (+) SetToBag({key})

\* a phase-1 condition that waits for the resume only
phase1_complete_resume_only(completed, job_ids, needs_resume, needs_jd) ==
  (~needs_resume) \/ BagIn(<<"resume_parsed", NoJob>>, completed)

\* resume_done and jds_done of collect_phase1
phase1_complete(completed, job_ids, needs_resume, needs_jd) ==
  LET resume_done ==
        (~needs_resume) \/ BagIn(<<"resume_parsed", NoJob>>, completed)
      jds_done ==
        (~needs_jd) \/
        (\A jid \in Range(job_ids) : BagIn(<<"jd_parsed", jid>>, completed))
  IN  resume_done /\ jds_done

\* any() where the code has all()
all_matched_any(completed, job_ids) ==
  \E jid \in Range(job_ids) : BagIn(<<"matched", jid>>, completed)

\* all_matched of collect_phase2
all_matched(completed, job_ids) ==
  \A jid \in Range(job_ids) : BagIn(<<"matched", jid>>, completed)

\* phase3_done of finalize
phase3_done(completed) ==
  \A step \in { <<"recommendations", NoJob>>, <<"interview_prep", NoJob>>,
                <<"market_insights", NoJob>> } : BagIn(step, completed)

\* A collector invocation up to its first broadcast: it records the
\* completion and evaluates its condition; when the condition is false it
\* returns None
Collect(step, key, fires) ==
  /\ queues' = [queues EXCEPT ![step] = Tail(@)]
  /\ store' = [store EXCEPT
                 !.completed_steps = record_completion(@, key)]
  /\ fires => fired.collect_phase1 + fired.collect_phase2 + fired.finalize
                 < MaxFirings
  /\ firing' = [firing EXCEPT ![step] = IF fires THEN @ + 1 ELSE @]
  /\ fired' = [fired EXCEPT ![step] = IF fires THEN @ + 1 ELSE @]
  /\ UNCHANGED << outside, caller, start_event, run_state, running, sent, returned,
                  failed, reported, result, clock, session, task >>

\* the rest of a collector invocation whose condition was true: after the
\* broadcasts it builds the next phase's events from the store
Emit(step, evs) ==
  /\ Active /\ Quiescent
  /\ firing[step] > 0
  /\ IF broadcast_workflow_progress(deliver) = "raised"
       THEN step_raises
       ELSE /\ firing' = [firing EXCEPT ![step] = @ - 1]
            /\ queues' = Dispatch(queues, evs)
            /\ sent' = sent (+) KeysBag(evs)
            /\ UNCHANGED << run_state, store, running, result >>
  /\ UNCHANGED << outside, caller, start_event, fired, returned, failed,
                  reported, clock, session, task >>

collect_phase1 ==
  /\ CanTake("collect_phase1")
  /\ LET ev == Head(queues.collect_phase1)
         key == IF ev.type = "ResumeParseResultEvent"
                  THEN <<"resume_parsed", NoJob>>
                  ELSE <<"jd_parsed", ev.job_id>>
     IN  Collect("collect_phase1", key,
                 phase1_complete(record_completion(store.completed_steps, key),
                                 store.job_ids, store.needs_resume_parsing,
                                 store.needs_jd_parsing))

collect_phase1_emit ==
  Emit("collect_phase1", match_events(store.job_ids))

collect_phase2 ==
  /\ CanTake("collect_phase2")
  /\ LET ev == Head(queues.collect_phase2)
         key == <<"matched", ev.job_id>>
     IN  Collect("collect_phase2", key,
                 all_matched(record_completion(store.completed_steps, key),
                             store.job_ids))

\* job_title of the first job's match, "Software Engineer" without one
job_title(skill_matches, job_ids) ==
  IF job_ids # << >> /\ job_ids[1] \in DOMAIN skill_matches
                     /\ ~skill_matches[job_ids[1]].empty
    THEN skill_matches[job_ids[1]].for
    ELSE "Software Engineer"

phase3_events(st) ==
  << Event("GenerateRecommendationsEvent", NoJob,
           Data("skill_gaps", st.all_skill_gaps)),
     Event("GenerateInterviewPrepEvent", NoJob,
           Data("skill_gaps", st.all_skill_gaps)),
     Event("GenerateMarketInsightsEvent", NoJob,
           Data(job_title(st.skill_matches, st.job_ids), << >>)) >>

collect_phase2_emit ==
  Emit("collect_phase2", phase3_events(store))

finalize ==
  /\ CanTake("finalize")
  /\ LET ev == Head(queues.finalize)
         key == CASE ev.type = "RecommendationResultEvent" ->
                       <<"recommendations", NoJob>>
                  [] ev.type = "InterviewPrepResultEvent" ->
                       <<"interview_prep", NoJob>>
                  [] OTHER -> <<"market_insights", NoJob>>
     IN  Collect("finalize", key,
                 phase3_done(record_completion(store.completed_steps, key)))

\* list(d.values()), kept as the bag of its entries
values(d) ==
  LET vs == { d[k] : k \in DOMAIN d }
  IN  [v \in vs |-> Cardinality({ k \in DOMAIN d : d[k] = v })]

\* a result that lists the parsed jobs as the matches
final_result_from_parsed_jobs(st) ==
  [ success |-> TRUE, job_matches |-> values(st.parsed_jobs),
    recommendations |-> st.recommendations,
    interview_prep |-> st.interview_prep,
    market_insights |-> st.market_insights ]

\* the StopEvent's result, built from the store
final_result(st) ==
  [ success |-> TRUE, job_matches |-> values(st.skill_matches),
    recommendations |-> st.recommendations,
    interview_prep |-> st.interview_prep,
    market_insights |-> st.market_insights ]

\* a finalize that sends the StopEvent and also returns it
finalize_return_twice ==
  << Work("StopEvent", NoJob), Work("StopEvent", NoJob) >>

\* what finalize returns once phase 3 is done: the StopEvent alone
finalize_return == << Work("StopEvent", NoJob) >>

\* finalize returns the StopEvent: the run is over and its tasks are
\* cancelled
finalize_emit ==
  /\ Active /\ Quiescent
  /\ firing.finalize > 0
  /\ IF broadcast_workflow_progress(deliver) = "raised"
       THEN step_raises
       ELSE /\ firing' = [firing EXCEPT !.finalize = @ - 1]
            /\ result' = final_result(store)
            /\ run_state' = "completed"
            /\ sent' = sent (+) KeysBag(finalize_return)
            /\ UNCHANGED << store, queues, running >>
  /\ UNCHANGED << outside, caller, start_event, fired, returned, failed,
                  reported, clock, session, task >>

\* ------------------------------------------------------- time and timeout
\* time passes while the run waits for its agents
Tick ==
  /\ Active /\ Quiescent
  /\ clock < WorkflowTimeout
  /\ clock' = clock + TickSeconds
  /\ UNCHANGED << outside, caller, start_event, run_state, store, queues, running,
                  firing, fired, sent, returned, failed, reported, result,
                  session, task >>

\* The run's timeout has elapsed before a StopEvent: the engine cancels
\* every task of the run and workflow.run raises the timeout error.
workflow_timeout ==
  /\ Active /\ Quiescent
  /\ clock >= WorkflowTimeout
  /\ run_state' = "timeout"
  /\ UNCHANGED << outside, caller, start_event, store, queues, running, firing, fired,
                  sent, returned, failed, reported, result, clock, session,
                  task >>

\* ---------------------------------------------------------------- session
\* DELETE /session/{id}
delete_session ==
  /\ caller = "analyze"
  /\ session.exists
  /\ session' = [session EXCEPT !.exists = FALSE]
  /\ UNCHANGED << outside, caller, start_event, run_state, store, queues, running,
                  firing, fired, sent, returned, failed, reported, result, clock,
                  task >>

\* a set_analysis_results that stores the results and leaves the status
set_analysis_results_keeps_status(sess) == [sess EXCEPT !.has_results = TRUE]

\* SessionManager.set_analysis_results on a session that get_session found
set_analysis_results(sess) ==
  [sess EXCEPT !.analysis_status = "completed", !.has_results = TRUE]

\* a run_analysis that announces success in its except branch too
complete_success_always(raised) == TRUE

\* the success flag run_analysis passes to broadcast_analysis_complete:
\* True after workflow.run returned, False in the except branch
complete_success(raised) == ~raised

\* broadcast_analysis_complete: the message goes out unless the delivery
\* raises, which run_analysis ignores
broadcast_analysis_complete(messages, success) ==
  IF deliver = "delivered"
    THEN Append(messages, [type |-> "analysis_complete", success |-> success])
    ELSE messages

\* run_analysis after workflow.run returned the StopEvent's result
run_analysis_result ==
  /\ task = "awaiting"
  /\ run_state = "completed"
  /\ session' = IF result.success /\ session.exists
                  THEN set_analysis_results(session) ELSE session
  /\ announced' = broadcast_analysis_complete(announced,
                                              complete_success(FALSE))
  /\ task' = "done"
  /\ UNCHANGED << quiet, caller, start_event, run_state, store, queues, running,
                  firing, fired, sent, returned, failed, reported, result, clock >>

\* an except branch that leaves the status alone
mark_failed_skipped(sess) == sess

\* the except branch of run_analysis on a session that get_session found
mark_failed(sess) == [sess EXCEPT !.analysis_status = "failed"]

\* run_analysis after workflow.run raised
run_analysis_except ==
  /\ task = "awaiting"
  /\ run_state \in {"timeout", "error"}
  /\ session' = IF session.exists THEN mark_failed(session) ELSE session
  /\ announced' = broadcast_analysis_complete(announced,
                                              complete_success(TRUE))
  /\ task' = "done"
  /\ UNCHANGED << quiet, caller, start_event, run_state, store, queues, running,
                  firing, fired, sent, returned, failed, reported, result, clock >>

\* ----------------------------------------------------------- specification
\* the workflow alone, run to its StopEvent
Next ==
  \/ run_direct
  \/ start
  \/ parse_resume_begin
  \/ parse_resume
  \/ analyze_jd_begin
  \/ analyze_jd
  \/ collect_phase1
  \/ collect_phase1_emit
  \/ match_skills_begin
  \/ match_skills
  \/ collect_phase2
  \/ collect_phase2_emit
  \/ generate_recommendations_begin
  \/ generate_recommendations
  \/ generate_interview_prep_begin
  \/ generate_interview_prep
  \/ generate_market_insights_begin
  \/ generate_market_insights
  \/ finalize
  \/ finalize_emit

Spec == Init /\ [][Next]_vars

\* The workflow run by the route's background task, with the run's timer and
\* the session.  run_analysis passes no texts, so start skips phase 1 and the
\* parse steps never receive an event.
RouteNext ==
  \/ analyze
  \/ run_analysis
  \/ start
  \/ match_skills_begin
  \/ match_skills
  \/ collect_phase2
  \/ collect_phase2_emit
  \/ generate_recommendations_begin
  \/ generate_recommendations
  \/ generate_interview_prep_begin
  \/ generate_interview_prep
  \/ generate_market_insights_begin
  \/ generate_market_insights
  \/ finalize
  \/ finalize_emit
  \/ Tick
  \/ workflow_timeout
  \/ delete_session
  \/ run_analysis_result
  \/ run_analysis_except

RouteSpec == RouteInit /\ [][RouteNext]_vars


\* The event loop runs every task that is ready and fires its timers: the
\* engine's steps, the clock and the background task are taken when they
\* stay possible.  The agents' returns and the requests of the client are
\* not: an agent may never return.
RouteFairness ==
  /\ WF_vars(run_analysis)
  /\ WF_vars(start)
  /\ WF_vars(match_skills_begin)
  /\ WF_vars(collect_phase2)
  /\ WF_vars(collect_phase2_emit)
  /\ WF_vars(generate_recommendations_begin)
  /\ WF_vars(generate_interview_prep_begin)
  /\ WF_vars(generate_market_insights_begin)
  /\ WF_vars(finalize)
  /\ WF_vars(finalize_emit)
  /\ WF_vars(Tick)
  /\ WF_vars(workflow_timeout)
  /\ WF_vars(run_analysis_result)
  /\ WF_vars(run_analysis_except)

RouteFairSpec == RouteSpec /\ RouteFairness

\* The workflow run while every progress delivery raises.
NotifyInit ==
  /\ caller = "direct"
  /\ start_event \in StartInputs
  /\ Fresh
  /\ ws = "down"
  /\ ApiAtRest
  /\ LimiterAtRest
  /\ StoreAtRest
  /\ ConnectionsAtRest

NotifySpec == NotifyInit /\ [][Next]_vars

\* ------------------------------------------------- requests on one session
\* Requests of any number of clients on one session.  A route handler runs
\* on the event loop and is interrupted only where it awaits: analyze awaits
\* nothing between reading analysis_status and update_session, and
\* upload_job_description awaits the upload and the LLM parse between its
\* limit check and add_job_description.  get_session hands out the stored
\* SessionData itself.
wf_vars == << caller, start_event, run_state, store, queues, running, firing,
              fired, sent, returned, failed, reported, result, clock, session,
              task, ws, announced, ag_agents >>

\* what a request on the session, a limiter call and a store call leave alone
not_api == << wf_vars, rl_vars, sm_vars, cm_vars >>
not_rl == << wf_vars, api_vars, sm_vars, cm_vars >>
not_sm == << wf_vars, api_vars, rl_vars, cm_vars >>
not_cm == << wf_vars, api_vars, rl_vars >>

\* the job descriptions of k earlier uploads
uploaded(k) == { << "old", i >> : i \in 1..k }

\* a session with or without a resume and with 0..MAX_JDS_PER_SESSION job
\* descriptions; no request in flight
ApiInit ==
  /\ caller = "direct"
  /\ start_event = [job_ids |-> << >>, resume_text |-> FALSE,
                    job_texts |-> NoTexts]
  /\ Fresh
  /\ ws = "up"
  /\ \E has_resume \in BOOLEAN, k \in 0..MAX_JDS_PER_SESSION :
       api_session = [exists |-> TRUE, resume_id |-> has_resume,
                      job_descriptions |-> uploaded(k),
                      analysis_status |-> "pending", has_results |-> FALSE,
                      analysis_id |-> 0, analysis_started_at |-> 0]
  /\ api_tasks = {}
  /\ api_uploads = [r \in Uploads |-> "idle"]
  /\ api_analyze = [handled |-> 0, response |-> "none"]
  /\ LimiterAtRest
  /\ StoreAtRest
  /\ ConnectionsAtRest

\* analyze without its test for an analysis in progress
analyze_response_no_conflict(sess) ==
  IF ~sess.exists THEN "404"
  ELSE IF ~sess.resume_id THEN "400"
  ELSE IF sess.job_descriptions = {} THEN "400"
  ELSE "202"

\* analyze: the response the checks of the handler lead to
analyze_response(sess) ==
  IF ~sess.exists THEN "404"
  ELSE IF ~sess.resume_id THEN "400"
  ELSE IF sess.job_descriptions = {} THEN "400"
  ELSE IF sess.analysis_status = "running" THEN "409"
  ELSE "202"

\* one analyze request, handled from get_session to the response; the n-th
\* request draws analysis id n and reads the clock at n
analyze_request ==
  /\ api_analyze.handled < MaxAnalyzeRequests
  /\ LET n == api_analyze.handled + 1
         response == analyze_response(api_session)
     IN /\ api_analyze' = [handled |-> n, response |-> response]
        /\ IF response = "202"
             THEN /\ api_session' = [api_session EXCEPT
                                       !.analysis_id = n,
                                       !.analysis_status = "running",
                                       !.analysis_started_at = n]
                  /\ api_tasks' = api_tasks \cup {[id |-> n, at |-> "scheduled"]}
             ELSE UNCHANGED << api_session, api_tasks >>
  /\ UNCHANGED << not_api, api_uploads >>

\* a scheduled run_analysis calls workflow.run
task_runs_workflow ==
  \E t \in api_tasks :
    /\ t.at = "scheduled"
    /\ api_tasks' = (api_tasks \ {t}) \cup {[t EXCEPT !.at = "workflow"]}
    /\ UNCHANGED << not_api, api_session, api_uploads, api_analyze >>

\* workflow.run returns the StopEvent's result or raises; run_analysis
\* records it and goes on to broadcast_analysis_complete
task_workflow_ends ==
  \E t \in api_tasks, outcome \in {"result", "raises"} :
    /\ t.at = "workflow"
    /\ api_session' = IF ~api_session.exists THEN api_session
                      ELSE IF outcome = "result"
                        THEN set_analysis_results(api_session)
                        ELSE mark_failed(api_session)
    /\ api_tasks' = (api_tasks \ {t}) \cup {[t EXCEPT !.at = "broadcast"]}
    /\ UNCHANGED << not_api, api_uploads, api_analyze >>

\* broadcast_analysis_complete returns or raises: run_analysis is over
task_done ==
  \E t \in api_tasks :
    /\ t.at = "broadcast"
    /\ api_tasks' = api_tasks \ {t}
    /\ UNCHANGED << not_api, api_session, api_uploads, api_analyze >>

\* SessionManager.delete_session, or get_session finding the session expired
session_removed ==
  /\ api_session.exists
  /\ api_session' = [api_session EXCEPT !.exists = FALSE]
  /\ UNCHANGED << not_api, api_tasks, api_uploads, api_analyze >>

\* the get_session dependency and the limit check at the top of
\* upload_job_description; a request that passes goes on to read and parse.
\* Requests are numbered in the order they arrive.
upload_job_description_begin ==
  \E r \in Uploads :
    /\ api_uploads[r] = "idle"
    /\ \A q \in Uploads : q < r => api_uploads[q] # "idle"
    /\ api_uploads' = [api_uploads EXCEPT ![r] =
         IF ~api_session.exists THEN "401"
         ELSE IF Cardinality(api_session.job_descriptions)
                   >= MAX_JDS_PER_SESSION THEN "400 maximum"
         ELSE "parsing"]
    /\ UNCHANGED << not_api, api_session, api_tasks, api_analyze >>

\* an add_job_description that trusts the check of the route
add_job_description_unchecked(sess, job_id) ==
  IF ~sess.exists THEN [success |-> FALSE, session |-> sess]
  ELSE [success |-> TRUE,
        session |-> [sess EXCEPT !.job_descriptions = @ \cup {job_id}]]

\* SessionManager.add_job_description
add_job_description(sess, job_id) ==
  IF ~sess.exists THEN [success |-> FALSE, session |-> sess]
  ELSE IF Cardinality(sess.job_descriptions) >= MAX_JDS_PER_SESSION
    THEN [success |-> FALSE, session |-> sess]
  ELSE [success |-> TRUE,
        session |-> [sess EXCEPT !.job_descriptions = @ \cup {job_id}]]

\* the rest of upload_job_description: the text is refused or the parse
\* fails, or the parsed description gets a fresh job id and is added
upload_job_description_add ==
  \E r \in Uploads, parse \in {"parsed", "refused"} :
    /\ api_uploads[r] = "parsing"
    /\ IF parse = "refused"
         THEN /\ api_uploads' = [api_uploads EXCEPT ![r] = "refused"]
              /\ UNCHANGED api_session
         ELSE LET added == add_job_description(api_session, << "job", r >>)
              IN /\ api_session' = added.session
                 /\ api_uploads' = [api_uploads EXCEPT ![r] =
                      IF added.success THEN "200" ELSE "400 failed to add"]
    /\ UNCHANGED << not_api, api_tasks, api_analyze >>

ApiNext ==
  \/ analyze_request
  \/ task_runs_workflow
  \/ task_workflow_ends
  \/ task_done
  \/ session_removed
  \/ upload_job_description_begin
  \/ upload_job_description_add

ApiSpec == ApiInit /\ [][ApiNext]_vars

\* ------------------------------------------------------------ rate limiter
\* RateLimiter (backend/app/guardrails/rate_limiter.py).  Every method runs
\* under the limiter's lock, so a call is one step.  Time is counted in whole
\* seconds and never runs backwards.

\* no workflow and no request on the session
WorkflowAtRest ==
  /\ caller = "direct"
  /\ start_event = [job_ids |-> << >>, resume_text |-> FALSE,
                    job_texts |-> NoTexts]
  /\ Fresh
  /\ ws = "up"
  /\ ApiAtRest

\* a limiter with any limit and window, not called yet
LimiterInit ==
  /\ WorkflowAtRest
  /\ rl_config \in [limit : 0..MaxLimit, window_seconds : 1..MaxWindow]
  /\ rl_entries = << >>
  /\ rl_now = 0
  /\ rl_last = NoCall
  /\ rl_granted = << >>
  /\ rl_after_reset = NotReset
  /\ StoreAtRest
  /\ ConnectionsAtRest

Max(a, b) == IF a >= b THEN a ELSE b
Min(a, b) == IF a <= b THEN a ELSE b

\* the entry defaultdict(RateLimitEntry) makes for a missing key
RateLimitEntry(now) ==
  [request_count |-> 0, window_start |-> now, last_request |-> now]

\* a check that lets the request at the limit through
check_at_limit(cfg, entries, session_id, current_time) ==
  LET found == IF session_id \in DOMAIN entries THEN entries[session_id]
               ELSE RateLimitEntry(current_time)
      entry == IF current_time - found.window_start >= cfg.window_seconds
                 THEN [found EXCEPT !.request_count = 0,
                                    !.window_start = current_time]
                 ELSE found
  IN  IF entry.request_count <= cfg.limit
        THEN [allowed |-> TRUE,
              entries |-> DictSet(entries, session_id,
                            [entry EXCEPT !.request_count = @ + 1,
                                          !.last_request = current_time])]
        ELSE [allowed |-> FALSE,
              entries |-> DictSet(entries, session_id, entry)]

\* a check that moves the window without clearing the count
check_keeps_count(cfg, entries, session_id, current_time) ==
  LET found == IF session_id \in DOMAIN entries THEN entries[session_id]
               ELSE RateLimitEntry(current_time)
      entry == IF current_time - found.window_start >= cfg.window_seconds
                 THEN [found EXCEPT !.window_start = current_time]
                 ELSE found
  IN  IF entry.request_count < cfg.limit
        THEN [allowed |-> TRUE,
              entries |-> DictSet(entries, session_id,
                            [entry EXCEPT !.request_count = @ + 1,
                                          !.last_request = current_time])]
        ELSE [allowed |-> FALSE,
              entries |-> DictSet(entries, session_id, entry)]

\* a check that keeps one window for all sessions: a window that ran out
\* restarts every entry
check_shared_window(cfg, entries, session_id, current_time) ==
  LET found == IF session_id \in DOMAIN entries THEN entries[session_id]
               ELSE RateLimitEntry(current_time)
      expired == current_time - found.window_start >= cfg.window_seconds
      entry == IF expired
                 THEN [found EXCEPT !.request_count = 0,
                                    !.window_start = current_time]
                 ELSE found
      others == IF expired
                  THEN [sid \in DOMAIN entries |->
                          [entries[sid] EXCEPT !.request_count = 0,
                                               !.window_start = current_time]]
                  ELSE entries
  IN  IF entry.request_count < cfg.limit
        THEN [allowed |-> TRUE,
              entries |-> DictSet(others, session_id,
                            [entry EXCEPT !.request_count = @ + 1,
                                          !.last_request = current_time])]
        ELSE [allowed |-> FALSE,
              entries |-> DictSet(others, session_id, entry)]

\* RateLimiter.check: the answer and the entries it leaves
check(cfg, entries, session_id, current_time) ==
  LET found == IF session_id \in DOMAIN entries THEN entries[session_id]
               ELSE RateLimitEntry(current_time)
      entry == IF current_time - found.window_start >= cfg.window_seconds
                 THEN [found EXCEPT !.request_count = 0,
                                    !.window_start = current_time]
                 ELSE found
  IN  IF entry.request_count < cfg.limit
        THEN [allowed |-> TRUE,
              entries |-> DictSet(entries, session_id,
                            [entry EXCEPT !.request_count = @ + 1,
                                          !.last_request = current_time])]
        ELSE [allowed |-> FALSE,
              entries |-> DictSet(entries, session_id, entry)]

\* a get_retry_after that does not look at the age of the window
get_retry_after_any_age(cfg, entries, session_id, current_time) ==
  IF session_id \notin DOMAIN entries THEN {}
  ELSE LET entry == entries[session_id]
           time_in_window == current_time - entry.window_start
       IN  IF entry.request_count >= cfg.limit
             THEN {cfg.window_seconds - time_in_window}
             ELSE {}

\* RateLimiter.get_retry_after: {} for None, {seconds} otherwise
get_retry_after(cfg, entries, session_id, current_time) ==
  IF session_id \notin DOMAIN entries THEN {}
  ELSE LET entry == entries[session_id]
           time_in_window == current_time - entry.window_start
       IN  IF /\ entry.request_count >= cfg.limit
              /\ time_in_window < cfg.window_seconds
             THEN {cfg.window_seconds - time_in_window}
             ELSE {}

\* defaultdict.__getitem__: a missing key gets a new entry
getitem(entries, session_id, now) ==
  IF session_id \in DOMAIN entries
    THEN [entry |-> entries[session_id], entries |-> entries]
    ELSE [entry |-> RateLimitEntry(now),
          entries |-> DictSet(entries, session_id, RateLimitEntry(now))]

\* a get_remaining that does not look at the age of the window
get_remaining_any_age(cfg, entries, session_id, current_time) ==
  IF session_id \notin DOMAIN entries
    THEN [value |-> cfg.limit, entries |-> entries]
  ELSE LET got == getitem(entries, session_id, current_time)
       IN  [value |-> Max(0, cfg.limit - got.entry.request_count),
            entries |-> got.entries]

\* RateLimiter.get_remaining: the answer and the entries it leaves
get_remaining(cfg, entries, session_id, current_time) ==
  IF session_id \notin DOMAIN entries
    THEN [value |-> cfg.limit, entries |-> entries]
  ELSE LET got == getitem(entries, session_id, current_time)
       IN  [value |->
              IF current_time - got.entry.window_start >= cfg.window_seconds
                THEN cfg.limit
                ELSE Max(0, cfg.limit - got.entry.request_count),
            entries |-> got.entries]

\* RateLimiter.get_stats
get_stats(cfg, entries, session_id, current_time) ==
  LET unused == [session_id |-> session_id, request_count |-> 0,
                 limit |-> cfg.limit, remaining |-> cfg.limit,
                 window_seconds |-> cfg.window_seconds, retry_after |-> {}]
  IN  IF session_id \notin DOMAIN entries THEN unused
      ELSE LET entry == entries[session_id]
               time_in_window == current_time - entry.window_start
               remaining == Max(0, cfg.limit - entry.request_count)
           IN  IF time_in_window >= cfg.window_seconds THEN unused
               ELSE [session_id |-> session_id,
                     request_count |-> entry.request_count,
                     limit |-> cfg.limit, remaining |-> remaining,
                     window_seconds |-> cfg.window_seconds,
                     retry_after |->
                       IF remaining > 0 THEN {}
                       ELSE {cfg.window_seconds - time_in_window}]

\* a reset that leaves the entry in place
reset_skipped(entries, session_id) == entries

\* RateLimiter.reset
reset(entries, session_id) ==
  [sid \in (DOMAIN entries) \ {session_id} |-> entries[sid]]

\* RateLimiter.reset_all
reset_all(entries) == [sid \in {} |-> RateLimitEntry(0)]

\* the count reset meets
count_of(entries, session_id) ==
  IF session_id \in DOMAIN entries THEN entries[session_id].request_count
  ELSE 0

\* limiter.check(session_id) at the present time
check_call(session_id) ==
  LET answer == check(rl_config, rl_entries, session_id, rl_now)
  IN  /\ rl_entries' = answer.entries
      /\ rl_last' = [op |-> "check", session_id |-> session_id,
                     allowed |-> answer.allowed]
      /\ rl_granted' = IF session_id = Observed /\ answer.allowed
           THEN Append(rl_granted, rl_now)
           ELSE rl_granted
      /\ rl_after_reset' =
           IF session_id # Observed \/ rl_after_reset = NotReset
             THEN rl_after_reset
             ELSE [rl_after_reset EXCEPT
                     !.checks = Min(@ + 1, rl_config.limit + 1)]
      /\ UNCHANGED << not_rl, rl_config, rl_now >>

\* limiter.reset(session_id)
reset_call(session_id) ==
  /\ rl_entries' = reset(rl_entries, session_id)
  /\ rl_last' = [op |-> "reset", session_id |-> session_id,
                 allowed |-> FALSE]
  /\ rl_granted' = IF session_id = Observed THEN << >> ELSE rl_granted
  /\ rl_after_reset' = IF session_id = Observed
       THEN [was |-> count_of(rl_entries, session_id), checks |-> 0]
       ELSE rl_after_reset
  /\ UNCHANGED << not_rl, rl_config, rl_now >>

\* limiter.reset_all()
reset_all_call ==
  /\ rl_entries' = reset_all(rl_entries)
  /\ rl_last' = [op |-> "reset_all", session_id |-> "s1",
                 allowed |-> FALSE]
  /\ rl_granted' = << >>
  /\ rl_after_reset' = [was |-> count_of(rl_entries, Observed), checks |-> 0]
  /\ UNCHANGED << not_rl, rl_config, rl_now >>

\* limiter.get_remaining(session_id)
get_remaining_call(session_id) ==
  /\ rl_entries' =
       get_remaining(rl_config, rl_entries, session_id, rl_now).entries
  /\ rl_last' = [op |-> "get_remaining", session_id |-> session_id,
                 allowed |-> FALSE]
  /\ UNCHANGED << not_rl, rl_config, rl_now, rl_granted,
                  rl_after_reset >>

\* limiter.get_retry_after(session_id)
get_retry_after_call(session_id) ==
  /\ rl_last' = [op |-> "get_retry_after", session_id |-> session_id,
                 allowed |-> FALSE]
  /\ UNCHANGED << not_rl, rl_config, rl_entries, rl_now,
                  rl_granted, rl_after_reset >>

\* limiter.get_stats(session_id)
get_stats_call(session_id) ==
  /\ rl_last' = [op |-> "get_stats", session_id |-> session_id,
                 allowed |-> FALSE]
  /\ UNCHANGED << not_rl, rl_config, rl_entries, rl_now,
                  rl_granted, rl_after_reset >>

\* a second passes; the record of allowed checks keeps those of the last
\* window_seconds
Second ==
  /\ rl_now < MaxTime
  /\ rl_now' = rl_now + 1
  /\ rl_granted' = SelectSeq(rl_granted,
       LAMBDA t : t > rl_now + 1 - rl_config.window_seconds)
  /\ UNCHANGED << not_rl, rl_config, rl_entries, rl_last,
                  rl_after_reset >>

Check == \E sid \in RlSessions : check_call(sid)
Reset == \E sid \in RlSessions : reset_call(sid)
GetRemaining == get_remaining_call(Observed)
GetRetryAfter == get_retry_after_call(Observed)
GetStats == get_stats_call(Observed)

LimiterNext ==
  \/ Check
  \/ Reset
  \/ reset_all_call
  \/ GetRemaining
  \/ GetRetryAfter
  \/ GetStats
  \/ Second

LimiterSpec == LimiterInit /\ [][LimiterNext]_vars

\* ------------------------------------------------------------ session store
\* SessionManager (backend/app/models/session.py).  create_session,
\* get_session, update_session and delete_session each run under the
\* manager's lock, so a call is one step.  A session id is a fresh uuid4:
\* the n-th session created has id n.  Time is counted in whole hours and
\* never runs backwards.  MAX_SESSIONS is a class attribute ("configurable
\* limits"); the store is modelled for every capacity 1..MaxCapacity.

\* an empty store of any capacity
StoreInit ==
  /\ WorkflowAtRest
  /\ LimiterAtRest
  /\ sm_capacity \in 1..MaxCapacity
  /\ sm_sessions = << >>
  /\ sm_now = 0
  /\ sm_expires = << >>
  /\ sm_held = {}
  /\ sm_last = NoLookup
  /\ ConnectionsAtRest

\* SessionData.is_expired
is_expired(sess, now) == now > sess.expires_at

\* SessionManager._cleanup_expired
cleanup_expired(sessions, now) ==
  [sid \in { x \in DOMAIN sessions : ~is_expired(sessions[x], now) } |->
     sessions[sid]]

\* SessionManager.create_session: the new SessionData and the store
create_session(capacity, sessions, session_id, now) ==
  LET kept == IF Cardinality(DOMAIN sessions) >= capacity
                THEN cleanup_expired(sessions, now) ELSE sessions
      made == [session_id |-> session_id, created_at |-> now,
               expires_at |-> now + SESSION_EXPIRY_HOURS]
  IN  [session |-> made, sessions |-> DictSet(kept, session_id, made)]

\* a get_session that does not look at expires_at
get_session_any_age(sessions, session_id, now) ==
  IF session_id \notin DOMAIN sessions
    THEN [found |-> {}, sessions |-> sessions]
    ELSE [found |-> {sessions[session_id]}, sessions |-> sessions]

\* SessionManager.get_session: {} for None or {session}, and the store
get_session(sessions, session_id, now) ==
  IF session_id \notin DOMAIN sessions
    THEN [found |-> {}, sessions |-> sessions]
  ELSE IF is_expired(sessions[session_id], now)
    THEN [found |-> {},
          sessions |-> [sid \in (DOMAIN sessions) \ {session_id} |->
                          sessions[sid]]]
  ELSE [found |-> {sessions[session_id]}, sessions |-> sessions]

\* an update_session that stores the object whether or not its id is there
update_session_unchecked(sessions, sess) ==
  DictSet(sessions, sess.session_id, sess)

\* SessionManager.update_session
update_session(sessions, sess) ==
  IF sess.session_id \in DOMAIN sessions
    THEN [sessions EXCEPT ![sess.session_id] = sess]
    ELSE sessions

\* SessionManager.delete_session
drop_session(sessions, session_id) ==
  [sid \in (DOMAIN sessions) \ {session_id} |-> sessions[sid]]

\* POST /session
create_session_call ==
  /\ Len(sm_expires) < MaxCreated
  /\ LET made == create_session(sm_capacity, sm_sessions,
                                Len(sm_expires) + 1, sm_now)
     IN  /\ sm_sessions' = made.sessions
         /\ sm_expires' = Append(sm_expires, made.session.expires_at)
         /\ sm_held' = sm_held \cup {made.session}
  /\ sm_last' = [op |-> "create_session", session_id |-> Len(sm_expires) + 1,
                 found |-> TRUE]
  /\ UNCHANGED << not_sm, sm_capacity, sm_now >>

\* session_manager.get_session(session_id) for an id handed out before
get_session_call(session_id) ==
  /\ session_id \in DOMAIN sm_expires
  /\ LET got == get_session(sm_sessions, session_id, sm_now)
     IN  /\ sm_sessions' = got.sessions
         /\ sm_held' = sm_held \cup got.found
         /\ sm_last' = [op |-> "get_session", session_id |-> session_id,
                        found |-> got.found # {}]
  /\ UNCHANGED << not_sm, sm_capacity, sm_now,
                  sm_expires >>

\* session_manager.update_session(session) by a holder of the object
update_session_call ==
  \E sess \in sm_held :
    /\ sm_sessions' = update_session(sm_sessions, sess)
    /\ sm_last' = [op |-> "update_session", session_id |-> sess.session_id,
                   found |-> sess.session_id \in DOMAIN sm_sessions]
    /\ UNCHANGED << not_sm, sm_capacity, sm_now,
                    sm_expires, sm_held >>

\* session_manager.delete_session(session_id)
delete_session_call ==
  \E session_id \in DOMAIN sm_expires :
    /\ sm_sessions' = drop_session(sm_sessions, session_id)
    /\ sm_last' = [op |-> "delete_session", session_id |-> session_id,
                   found |-> session_id \in DOMAIN sm_sessions]
    /\ UNCHANGED << not_sm, sm_capacity, sm_now,
                    sm_expires, sm_held >>

\* an hour passes
Hour ==
  /\ sm_now < MaxHours
  /\ sm_now' = sm_now + 1
  /\ UNCHANGED << not_sm, sm_capacity, sm_sessions,
                  sm_expires, sm_held, sm_last >>

GetSession == \E session_id \in 1..MaxCreated : get_session_call(session_id)

StoreNext ==
  \/ create_session_call
  \/ GetSession
  \/ update_session_call
  \/ delete_session_call
  \/ Hour

StoreSpec == StoreInit /\ [][StoreNext]_vars

\* ------------------------------------------------------ websocket progress
\* ConnectionManager, websocket_progress and broadcast_agent_progress
\* (backend/app/api/websocket.py) over the session store.  A handler is
\* interrupted only where it awaits: websocket.accept, websocket.close,
\* every send_json and the receive loop.  A message counts as received when
\* send_json is called.  Session 1 exists at the start; id 2 never existed.
WsSessionIds == {1, 2}
Agents == {"resume_parser", "skill_matcher"}
Updates == { [status |-> "running", progress |-> 50],
             [status |-> "completed", progress |-> 100] }
Progress(agent_name, status, progress) ==
  [agent_name |-> agent_name, status |-> status, progress |-> progress]

\* one session, created now, with the progress of none, one or two agents
\* recorded; no client
ConnectionsInit ==
  /\ WorkflowAtRest
  /\ LimiterAtRest
  /\ sm_capacity = 1
  /\ sm_sessions = create_session(1, << >>, 1, 0).sessions
  /\ sm_now = 0
  /\ sm_expires = << create_session(1, << >>, 1, 0).session.expires_at >>
  /\ sm_held = {}
  /\ sm_last = NoLookup
  /\ \E recorded \in
         { << >>,
           << Progress("resume_parser", "running", 50) >>,
           << Progress("resume_parser", "completed", 100),
              Progress("skill_matcher", "running", 50) >> } :
       sd_agent_progress = [sid \in {1} |-> recorded]
  /\ cm_active = << >>
  /\ cm_clients = [c \in Clients |-> NoHandler]
  /\ cm_broadcast = NoBroadcast
  /\ cm_broadcasts = 0

\* the agent_update message built from an entry of agent_progress
agent_update(entry) ==
  [type |-> "agent_update", agent_name |-> entry.agent_name,
   status |-> entry.status, progress |-> entry.progress]

\* agent_progress[agent_name] = {...}: a known key keeps its place, a new
\* one goes last
dict_assign(recorded, entry) ==
  IF \E i \in DOMAIN recorded : recorded[i].agent_name = entry.agent_name
    THEN [i \in DOMAIN recorded |->
            IF recorded[i].agent_name = entry.agent_name THEN entry
            ELSE recorded[i]]
    ELSE Append(recorded, entry)

\* SessionManager.update_agent_progress: the store and the progress it leaves
update_agent_progress(sessions, recorded, session_id, entry, now) ==
  LET got == get_session(sessions, session_id, now)
  IN  IF got.found = {}
        THEN [success |-> FALSE, sessions |-> got.sessions,
              recorded |-> recorded]
        ELSE [success |-> TRUE,
              sessions |-> update_session(got.sessions,
                                          sessions[session_id]),
              recorded |-> [recorded EXCEPT ![session_id] =
                              dict_assign(@, entry)]]

\* a connect that accepts whatever the session lookup found
connect_accepts_all(found) == "accept"

\* ConnectionManager.connect: what it does with the session it looked up
connect(found) == IF found = {} THEN "close 4001" ELSE "accept"

\* _active_connections[session_id].add(websocket), the key made if missing
register(active, session_id, websocket) ==
  DictSet(active, session_id,
          (IF session_id \in DOMAIN active THEN active[session_id] ELSE {})
            \cup {websocket})

\* ConnectionManager.disconnect
disconnect(active, session_id, websocket) ==
  IF session_id \notin DOMAIN active THEN active
  ELSE IF active[session_id] \ {websocket} = {}
    THEN [sid \in (DOMAIN active) \ {session_id} |-> active[sid]]
  ELSE [active EXCEPT ![session_id] = @ \ {websocket}]

\* websocket_progress up to the await in ConnectionManager.connect: the
\* session lookup, then close(4001) or accept
websocket_connect ==
  \E c \in Clients, session_id \in WsSessionIds :
    /\ cm_clients[c].at = "idle"
    /\ c = "w2" => cm_clients["w1"].at # "idle"
    /\ LET got == get_session(sm_sessions, session_id, sm_now)
           verdict == connect(got.found)
           existed == /\ session_id \in DOMAIN sm_sessions
                      /\ sm_now <= sm_sessions[session_id].expires_at
       IN  /\ sm_sessions' = got.sessions
           /\ cm_clients' = [cm_clients EXCEPT ![c] =
                [NoHandler EXCEPT
                   !.session_id = session_id,
                   !.existed = existed,
                   !.at = IF verdict = "accept" THEN "accepting"
                          ELSE "closed",
                   !.close_code = IF verdict = "accept" THEN 0 ELSE 4001]]
    /\ UNCHANGED << not_cm, sm_capacity, sm_now, sm_expires, sm_held, sm_last,
                    sd_agent_progress, cm_active, cm_broadcast,
                    cm_broadcasts >>

\* after websocket.accept: the connection is registered, the session looked
\* up again and the first entry of its agent_progress sent; accept may raise
websocket_accepted ==
  \E c \in Clients, outcome \in {"accepted", "raises"} :
    /\ cm_clients[c].at = "accepting"
    /\ IF outcome = "raises"
         THEN /\ cm_clients' = [cm_clients EXCEPT ![c].at = "ended"]
              /\ UNCHANGED << sm_sessions, cm_active >>
         ELSE LET session_id == cm_clients[c].session_id
                  got == get_session(sm_sessions, session_id, sm_now)
              IN  /\ cm_active' = register(cm_active, session_id, c)
                  /\ sm_sessions' = got.sessions
                  /\ cm_clients' = [cm_clients EXCEPT ![c] =
                       IF got.found # {}
                          /\ Len(sd_agent_progress[session_id]) > 0
                         THEN [@ EXCEPT
                                 !.at = "snapshot",
                                 !.cursor = 1,
                                 !.size = Len(sd_agent_progress[session_id]),
                                 !.received = Append(@,
                                    agent_update(
                                      sd_agent_progress[session_id][1]))]
                         ELSE [@ EXCEPT !.at = "listening"]]
    /\ UNCHANGED << not_cm, sm_capacity, sm_now, sm_expires, sm_held, sm_last,
                    sd_agent_progress, cm_broadcast, cm_broadcasts >>

\* the loop over session.agent_progress.items() goes on after a send: a
\* dict that changed size raises RuntimeError out of the handler
websocket_snapshot ==
  \E c \in Clients :
    /\ cm_clients[c].at = "snapshot"
    /\ LET recorded == sd_agent_progress[cm_clients[c].session_id]
           cursor == cm_clients[c].cursor
       IN  cm_clients' = [cm_clients EXCEPT ![c] =
             IF Len(recorded) # cm_clients[c].size
               THEN [@ EXCEPT !.at = "crashed"]
             ELSE IF cursor < Len(recorded)
               THEN [@ EXCEPT
                       !.cursor = cursor + 1,
                       !.received = Append(@,
                                      agent_update(recorded[cursor + 1]))]
             ELSE [@ EXCEPT !.at = "listening"]]
    /\ UNCHANGED << not_cm, sm_vars, sd_agent_progress, cm_active,
                    cm_broadcast, cm_broadcasts >>

\* the client goes away while the handler waits in receive_text:
\* WebSocketDisconnect, manager.disconnect
websocket_disconnects ==
  \E c \in Clients :
    /\ cm_clients[c].at = "listening"
    /\ cm_clients' = [cm_clients EXCEPT ![c].at = "ended"]
    /\ cm_active' = disconnect(cm_active, cm_clients[c].session_id, c)
    /\ UNCHANGED << not_cm, sm_vars, sd_agent_progress, cm_broadcast,
                    cm_broadcasts >>

\* no message for 30 seconds and the keep-alive ping cannot be sent: the
\* handler leaves its loop with break and returns
websocket_ping_fails ==
  \E c \in Clients :
    /\ cm_clients[c].at = "listening"
    /\ cm_clients' = [cm_clients EXCEPT ![c].at = "ended"]
    /\ UNCHANGED << not_cm, sm_vars, sd_agent_progress, cm_active,
                    cm_broadcast, cm_broadcasts >>

\* the connections of the session right now
connections(session_id) ==
  IF session_id \in DOMAIN cm_active THEN cm_active[session_id] ELSE {}

\* broadcast_to_session from one await to the next, for the broadcast b:
\* a set that changed size raises RuntimeError out of broadcast_agent_progress;
\* when the loop is over the failed connections are discarded and
\* broadcast_agent_progress records the update; otherwise the next connection
\* is sent the message
broadcast_resumes(b) ==
  LET now_there == connections(b.session_id)
      entry == Progress(b.agent_name, b.status, b.progress)
  IN  IF Cardinality(now_there) # b.size
        THEN /\ cm_broadcast' = NoBroadcast
             /\ UNCHANGED << cm_active, cm_clients, sm_sessions,
                             sd_agent_progress >>
      ELSE IF b.todo \cap now_there = {}
        THEN LET stored == update_agent_progress(sm_sessions,
                             sd_agent_progress, b.session_id, entry, sm_now)
             IN  /\ cm_broadcast' = NoBroadcast
                 /\ cm_active' =
                      IF b.session_id \in DOMAIN cm_active
                        THEN [cm_active EXCEPT
                                ![b.session_id] = @ \ b.disconnected]
                        ELSE cm_active
                 /\ sm_sessions' = stored.sessions
                 /\ sd_agent_progress' = stored.recorded
                 /\ UNCHANGED cm_clients
      ELSE \E connection \in b.todo \cap now_there :
             /\ IF cm_clients[connection].at \in {"snapshot", "listening"}
                  THEN /\ cm_clients' = [cm_clients EXCEPT
                            ![connection].received =
                               Append(@, agent_update(entry))]
                       /\ cm_broadcast' =
                            [b EXCEPT !.todo = @ \ {connection}]
                  ELSE /\ cm_broadcast' =
                            [b EXCEPT !.todo = @ \ {connection},
                                      !.disconnected = @ \cup {connection}]
                       /\ UNCHANGED cm_clients
             /\ UNCHANGED << cm_active, sm_sessions, sd_agent_progress >>

\* an agent calls broadcast_agent_progress for a session that was created
broadcast_agent_progress ==
  \E session_id \in DOMAIN sm_expires, agent_name \in Agents, u \in Updates :
    /\ cm_broadcast = NoBroadcast
    /\ cm_broadcasts < MaxBroadcasts
    /\ cm_broadcasts' = cm_broadcasts + 1
    /\ broadcast_resumes([session_id |-> session_id,
                          agent_name |-> agent_name,
                          status |-> u.status, progress |-> u.progress,
                          todo |-> connections(session_id),
                          size |-> Cardinality(connections(session_id)),
                          disconnected |-> {}])
    /\ UNCHANGED << not_cm, sm_capacity, sm_now, sm_expires, sm_held,
                    sm_last >>

\* the broadcast in flight goes on after a send
broadcast_to_session ==
  /\ cm_broadcast # NoBroadcast
  /\ broadcast_resumes(cm_broadcast)
  /\ UNCHANGED << not_cm, sm_capacity, sm_now, sm_expires, sm_held, sm_last,
                  cm_broadcasts >>

\* time passes for as long as a stored session can still expire
session_ages ==
  /\ \E session_id \in DOMAIN sm_sessions :
       ~is_expired(sm_sessions[session_id], sm_now)
  /\ Hour

ConnectionsNext ==
  \/ websocket_connect
  \/ websocket_accepted
  \/ websocket_snapshot
  \/ websocket_disconnects
  \/ websocket_ping_fails
  \/ broadcast_agent_progress
  \/ broadcast_to_session
  \/ session_ages

ConnectionsSpec == ConnectionsInit /\ [][ConnectionsNext]_vars

\* ---------------------------------------------------------- agent progress
\* The SkillMatcherAgent calls of one run with two jobs: one match_skills
\* handler per job id, each with its own agent named "skill_matcher"
\* (BaseAgent.process, SkillMatcherAgent._execute).  No WebSocket client is
\* connected, so every broadcast_agent_progress goes on to
\* update_agent_progress without suspension and a status broadcast is one
\* step.  The workers take both SkillMatchEvents before an agent call
\* resumes.

\* the progress values of the report_progress calls of
\* SkillMatcherAgent._execute, in order
ReportSteps == << 10, 30, 50, 60, 70, 80, 100 >>

\* session 1 with skill_matcher announced as pending, both events queued
ProgressInit ==
  /\ WorkflowAtRest
  /\ LimiterAtRest
  /\ sm_capacity = 1
  /\ sm_sessions = create_session(1, << >>, 1, 0).sessions
  /\ sm_now = 0
  /\ sm_expires = << create_session(1, << >>, 1, 0).session.expires_at >>
  /\ sm_held = {}
  /\ sm_last = NoLookup
  /\ sd_agent_progress =
       [sid \in {1} |-> << Progress("skill_matcher", "pending", 0) >>]
  /\ cm_active = << >>
  /\ cm_clients = [c \in Clients |-> NoHandler]
  /\ cm_broadcast = NoBroadcast
  /\ cm_broadcasts = 0

\* BaseAgent._broadcast_status with no client connected: the status is
\* recorded in the session's agent_progress if the session is still there
status_recorded(status, progress) ==
  LET stored == update_agent_progress(
                  sm_sessions, sd_agent_progress, 1,
                  Progress("skill_matcher", status, progress), sm_now)
  IN  /\ sm_sessions' = stored.sessions
      /\ sd_agent_progress' = stored.recorded

\* what the steps of an agent call leave alone
not_ag == << caller, start_event, run_state, store, queues, running, firing,
             fired, sent, returned, failed, reported, result, clock, session,
             task, ws, announced, api_vars, rl_vars, sm_capacity, sm_now,
             sm_expires, sm_held, sm_last, cm_active, cm_clients,
             cm_broadcast, cm_broadcasts >>

\* a worker can take the job's event, or every worker is busy
workers_busy ==
  \/ \A job_id \in JobIds : ag_agents[job_id].at # "waiting"
  \/ Cardinality({ job_id \in JobIds : ag_agents[job_id].at = "executing" })
       >= NumWorkers.match_skills

\* a worker takes the job's SkillMatchEvent; agent.process reports "running"
process_begins ==
  \E job_id \in JobIds :
    /\ ag_agents[job_id].at = "waiting"
    /\ Cardinality({ j \in JobIds : ag_agents[j].at = "executing" })
         < NumWorkers.match_skills
    /\ ag_agents' = [ag_agents EXCEPT ![job_id].at = "executing"]
    /\ status_recorded("running", 0)
    /\ UNCHANGED not_ag

\* _execute goes on to its next report_progress
execute_reports ==
  \E job_id \in JobIds :
    /\ workers_busy
    /\ ag_agents[job_id].at = "executing"
    /\ ag_agents[job_id].reports < Len(ReportSteps)
    /\ ag_agents' = [ag_agents EXCEPT ![job_id].reports = @ + 1]
    /\ status_recorded("running", ReportSteps[ag_agents[job_id].reports + 1])
    /\ UNCHANGED not_ag

\* _execute returns after its last report, or raises: process reports
\* "completed" or "failed"
process_ends ==
  \E job_id \in JobIds, outcome \in Outcomes :
    /\ workers_busy
    /\ ag_agents[job_id].at = "executing"
    /\ outcome = "ok" => ag_agents[job_id].reports = Len(ReportSteps)
    /\ ag_agents' = [ag_agents EXCEPT ![job_id].at = "returned"]
    /\ IF outcome = "ok" THEN status_recorded("completed", 100)
                         ELSE status_recorded("failed", 0)
    /\ UNCHANGED not_ag

ProgressNext ==
  \/ process_begins
  \/ execute_reports
  \/ process_ends
  \/ session_ages

ProgressSpec == ProgressInit /\ [][ProgressNext]_vars






\* ================================================================ claims
SentCount(type, job_id) == CopiesIn([type |-> type, job_id |-> job_id], sent)
ReturnedCount(type, job_id) ==
  CopiesIn([type |-> type, job_id |-> job_id], returned)
Recorded(name, job_id) == CopiesIn(<<name, job_id>>, store.completed_steps)
\* the start handler has run
Started == run_state # "idle" /\ queues.start = << >>
job_ids == start_event.job_ids
Phase3Types == { "GenerateRecommendationsEvent", "GenerateInterviewPrepEvent",
                 "GenerateMarketInsightsEvent" }
SkipsPhase1 ==
  ~needs_resume_parsing(start_event) /\ ~needs_jd_parsing(start_event)
AllMatchedRecorded == \A jid \in Range(job_ids) : Recorded("matched", jid) >= 1

\* the work events and the result event each one is answered with
WorkKinds ==
  { <<"ResumeParseEvent", "ResumeParseResultEvent">>,
    <<"JDAnalyzeEvent", "JDAnalyzeResultEvent">>,
    <<"SkillMatchEvent", "SkillMatchResultEvent">>,
    <<"GenerateRecommendationsEvent", "RecommendationResultEvent">>,
    <<"GenerateInterviewPrepEvent", "InterviewPrepResultEvent">>,
    <<"GenerateMarketInsightsEvent", "MarketInsightsResultEvent">> }
SubTasks == JobIds \cup {NoJob}

\* every event sent for the work steps has been handled, its result collected
\* and the collector's pending emission done
Settled(steps, collector) ==
  /\ \A st \in steps : queues[st] = << >> /\ running[st] = EmptyBag
  /\ queues[collector] = << >>
  /\ firing[collector] = 0

\* a run with N >= 1 distinct job ids whose match phase was dispatched once
OneMatchPerJob ==
  /\ Started
  /\ job_ids # << >>
  /\ Injective(job_ids)
  /\ \A jid \in JobIds : SentCount("SkillMatchEvent", jid) <= 1

\* C1: in a run with N distinct job ids whose N match results reach
\* collect_phase2 in any order, each of the three phase-3 work events is sent
\* at most once, none before all N "matched" completions are recorded, and
\* each exactly once when all N are recorded and the collector has emitted.
C1_Phase3ExactlyOnce ==
  OneMatchPerJob =>
    /\ \A t \in Phase3Types : SentCount(t, NoJob) <= 1
    /\ \A t \in Phase3Types : SentCount(t, NoJob) >= 1 => AllMatchedRecorded
    /\ (AllMatchedRecorded /\ firing.collect_phase2 = 0) =>
         \A t \in Phase3Types : SentCount(t, NoJob) = 1

\* two distinct jobs, the second job's match finished first, phase 3 sent once
C1_Witness ==
  /\ OneMatchPerJob
  /\ job_ids = <<"j1", "j2">>
  /\ store.all_skill_gaps = <<"s2", "s1">>
  /\ \A t \in Phase3Types : SentCount(t, NoJob) = 1

Multiplicity(seq, x) == Cardinality({ i \in DOMAIN seq : seq[i] = x })

\* C2: the next phase's work events are emitted at most once, also when a
\* completion is delivered twice or a result arrives after the barrier has
\* fired: no job gets more SkillMatchEvents than job_ids has entries for it
\* and each phase-3 work event is sent at most once.
C2_NoSecondEmission ==
  /\ \A jid \in JobIds :
       SentCount("SkillMatchEvent", jid) <= Multiplicity(job_ids, jid)
  /\ \A t \in Phase3Types : SentCount(t, NoJob) <= 1

\* every parse event start dispatched has its completion recorded
AllParseCompleted ==
  /\ Recorded("resume_parsed", NoJob) >= SentCount("ResumeParseEvent", NoJob)
  /\ \A jid \in JobIds :
       Recorded("jd_parsed", jid) >= SentCount("JDAnalyzeEvent", jid)

\* C3: when start dispatched parse work, the phase-1 barrier has fired if and
\* only if every dispatched parse event has completed.
C3_Phase1WaitsForDispatched ==
  (Started /\ ~SkipsPhase1) => (fired.collect_phase1 >= 1 <=> AllParseCompleted)

\* every job id of the run has a JD text, or no JD is parsed
ExpectedDispatched ==
  needs_jd_parsing(start_event) =>
    Range(job_ids) \subseteq Range(start_event.job_texts.keys)

SomeFailed(types) == \E k \in BagToSet(failed) : k.type \in types

InFlight(type, jid) ==
  LET k == [type |-> type, job_id |-> jid]
      q == queues[StepFor(type)]
      r == running[StepFor(type)]
      mine == { e \in BagToSet(r) : Key(e) = k }
  IN  BagCardinality([e \in mine |-> r[e]])
      + Cardinality({ i \in DOMAIN q : Key(q[i]) = k })

\* the event types that carry a job id
JobKeyed == { "JDAnalyzeEvent", "JDAnalyzeResultEvent",
              "SkillMatchEvent", "SkillMatchResultEvent" }
SubTasksOf(type) == IF type \in JobKeyed THEN JobIds ELSE {NoJob}

\* C5: every work event whose agent call returned or raised is answered by
\* exactly one result event for its sub-task (same job id, or none for the
\* steps without one), and every work event sent is waiting, being handled or
\* answered.
C5_OneResultPerWorkEvent ==
  /\ \A k \in BagToSet(sent) : k.job_id \in SubTasksOf(k.type)
  /\ \A wk \in WorkKinds : \A jid \in SubTasksOf(wk[1]) :
       /\ SentCount(wk[2], jid) = ReturnedCount(wk[1], jid)
       /\ SentCount(wk[1], jid) = ReturnedCount(wk[1], jid) + InFlight(wk[1], jid)

\* a failed and a successful match handler have each produced one result
C5_Witness ==
  /\ CopiesIn([type |-> "SkillMatchEvent", job_id |-> "j1"], failed) = 1
  /\ ReturnedCount("SkillMatchEvent", "j2") = 1
  /\ SentCount("SkillMatchResultEvent", "j1") = 1
  /\ SentCount("SkillMatchResultEvent", "j2") = 1

\* C6: a SkillMatchEvent is sent only when start skipped phase 1 or the
\* phase-1 barrier has fired with its condition true, and a phase-3 work
\* event only when every job id has a recorded "matched" completion.
C6_PhaseOrder ==
  /\ (\E jid \in JobIds : SentCount("SkillMatchEvent", jid) >= 1) =>
       \/ SkipsPhase1
       \/ /\ fired.collect_phase1 >= 1
          /\ phase1_complete(store.completed_steps, store.job_ids,
                             store.needs_resume_parsing, store.needs_jd_parsing)
          /\ needs_resume_parsing(start_event) =>
               Recorded("resume_parsed", NoJob) >= 1
          /\ needs_jd_parsing(start_event) =>
               \A jid \in Range(job_ids) : Recorded("jd_parsed", jid) >= 1
  /\ (\E t \in Phase3Types : SentCount(t, NoJob) >= 1) =>
       (fired.collect_phase2 >= 1 /\ AllMatchedRecorded)

\* a run that parsed a resume and two JDs, matched both jobs and reached
\* phase 3
C6_Witness ==
  /\ needs_resume_parsing(start_event)
  /\ job_ids = <<"j1", "j2">>
  /\ Recorded("jd_parsed", "j1") = 1 /\ Recorded("jd_parsed", "j2") = 1
  /\ SentCount("SkillMatchEvent", "j2") = 1
  /\ SentCount("GenerateMarketInsightsEvent", NoJob) = 1

\* C7: whatever the interleaving of the match_skills and analyze_jd
\* handlers, skill_matches has an entry for every job whose match handler
\* finished, parsed_jobs one for every analysed job, and all_skill_gaps holds
\* every skill name a match handler reported.
C7_NoLostWrite ==
  /\ \A jid \in JobIds :
       /\ ReturnedCount("SkillMatchEvent", jid) >= 1 =>
            jid \in DOMAIN store.skill_matches
       /\ ReturnedCount("JDAnalyzeEvent", jid) >= 1 =>
            jid \in DOMAIN store.parsed_jobs
  /\ reported \subseteq Range(store.all_skill_gaps)

\* two JD handlers and two match handlers of one run have all written
C7_Witness ==
  /\ DOMAIN store.parsed_jobs = {"j1", "j2"}
  /\ DOMAIN store.skill_matches = {"j1", "j2"}
  /\ reported = {"s1", "s2"}
  /\ fired.collect_phase2 = 1

MatchedTotal ==
  LET b == store.completed_steps
      matched == { k \in BagToSet(b) : k[1] = "matched" }
  IN  BagCardinality([k \in matched |-> b[k]])

\* C8: with no resume text and no job texts, no parse event is ever sent,
\* start sends one SkillMatchEvent per entry of job_ids, and collect_phase2
\* has fired only when len(job_ids) match completions are recorded.
C8_SkipPhase1 ==
  (Started /\ SkipsPhase1) =>
    /\ SentCount("ResumeParseEvent", NoJob) = 0
    /\ \A jid \in JobIds : SentCount("JDAnalyzeEvent", jid) = 0
    /\ \A jid \in JobIds :
         SentCount("SkillMatchEvent", jid) = Multiplicity(job_ids, jid)
    /\ fired.collect_phase2 >= 1 => MatchedTotal = Len(job_ids)

\* C9: completed_steps never holds the same key twice.
C9_CompletionRecordedOnce ==
  \A k \in BagToSet(store.completed_steps) :
     CopiesIn(k, store.completed_steps) <= 1

\* C10: a run ends with the timeout error only when WorkflowTimeout seconds
\* have elapsed; once run_analysis has handled the error the session, if it
\* is still stored, has analysis_status "failed"; and after the timeout no
\* handler of the run starts, finishes or sends an event.
C10_Timeout ==
  /\ [](run_state = "timeout" => clock >= WorkflowTimeout)
  /\ []((run_state = "timeout" /\ task = "done" /\ session.exists) =>
          session.analysis_status = "failed")
  /\ [][run_state = "timeout" =>
          /\ run_state' = "timeout"
          /\ << store, queues, running, firing, fired, sent, returned, result >>' =
             << store, queues, running, firing, fired, sent, returned, result >>]_vars

\* the match agent of a route-started run never returned; the run timed out
\* and the session is marked failed
C10_Witness ==
  /\ caller = "analyze"
  /\ run_state = "timeout"
  /\ clock >= WorkflowTimeout
  /\ running.match_skills # EmptyBag
  /\ task = "done"
  /\ session.exists /\ session.analysis_status = "failed"

\* all work events whose handler awaits its agent
AllRunning ==
  running.parse_resume (+) running.analyze_jd (+) running.match_skills (+)
  running.generate_recommendations (+) running.generate_interview_prep (+)
  running.generate_market_insights

\* C11: the step in which an agent call fails leaves the run running, leaves
\* every queued work event queued and every other in-flight work event in
\* flight, and sends the failed handler's own result event.
C11_FailureCancelsNothing ==
  [][ failed' # failed =>
        /\ run_state' = "running"
        /\ \A st \in WorkSteps : queues'[st] = queues[st]
        /\ \A st \in WorkSteps : running'[st] \sqsubseteq running[st]
        /\ BagCardinality(AllRunning') = BagCardinality(AllRunning) - 1
        /\ BagCardinality(sent') = BagCardinality(sent) + 1 ]_vars

\* the match agent of j1 has raised while the match handler of j2 is still
\* awaiting its agent
C11_Witness ==
  /\ Active
  /\ CopiesIn([type |-> "SkillMatchEvent", job_id |-> "j1"], failed) = 1
  /\ SentCount("SkillMatchResultEvent", "j1") = 1
  /\ BagIn(Work("SkillMatchEvent", "j2"), running.match_skills)
  /\ ReturnedCount("SkillMatchEvent", "j2") = 0

\* an event or result that says it stands for a failure
Flagged(ev) == "success" \in DOMAIN ev /\ ~ev.success
CarriesError(ev) == "errors" \in DOMAIN ev /\ ev.errors # << >>

\* C12: a result event sent after a failed agent call (the ones whose payload
\* is the empty dict of a failed AgentOutput) is flagged as failed or carries
\* the error detail, and the result of a completed run in which a call
\* failed shows the failure.
C12_FailureFlagged ==
  /\ \A c \in Collectors : \A i \in DOMAIN queues[c] :
       queues[c][i].data = EmptyDict =>
         (Flagged(queues[c][i]) \/ CarriesError(queues[c][i]))
  /\ (run_state = "completed" /\ failed # EmptyBag) =>
       (Flagged(result) \/ CarriesError(result))

good_match(jid) == Data(jid, missing_skills_of(jid))

\* C14: the job_matches of a completed run has as many entries as job_ids has
\* distinct ids, and for each of them the entry produced by its match
\* handler: the matcher's result for that id, or the empty dict of a failed
\* call when a match call for the id failed.
C14_OneMatchPerJobId ==
  run_state = "completed" =>
    LET jm == result.job_matches
    IN  /\ BagCardinality(jm) = Cardinality(Range(job_ids))
        /\ \A jid \in Range(job_ids) :
             /\ CopiesIn(good_match(jid), jm) <= 1
             /\ CopiesIn(good_match(jid), jm) = 0 =>
                  CopiesIn([type |-> "SkillMatchEvent", job_id |-> jid],
                           failed) >= 1
        /\ \A v \in BagToSet(jm) :
             v = EmptyDict \/ \E jid \in Range(job_ids) : v = good_match(jid)

\* a completed run over two jobs, the match of j2 failed
C14_Witness ==
  /\ run_state = "completed"
  /\ job_ids = <<"j1", "j2">>
  /\ CopiesIn(good_match("j1"), result.job_matches) = 1
  /\ CopiesIn(EmptyDict, result.job_matches) = 1

\* an agent call for the sub-task returned and none of them failed
OnlySucceeded(type, jid) ==
  /\ ReturnedCount(type, jid) >= 1
  /\ CopiesIn([type |-> type, job_id |-> jid], failed) = 0

\* C16: while every progress delivery raises, no handler fails the run, a
\* successful agent call still stores the agent's own output, every returned
\* call is still answered by its result event, and a completed run still
\* reports success.
C16_BroadcastFailureSwallowed ==
  /\ run_state # "error"
  /\ \A jid \in JobIds :
       /\ OnlySucceeded("SkillMatchEvent", jid) =>
            store.skill_matches[jid] = good_match(jid)
       /\ OnlySucceeded("JDAnalyzeEvent", jid) =>
            store.parsed_jobs[jid] = Data(jid, << >>)
       /\ SentCount("SkillMatchResultEvent", jid) =
            ReturnedCount("SkillMatchEvent", jid)
  /\ OnlySucceeded("ResumeParseEvent", NoJob) =>
       store.parsed_resume = Data("resume", << >>)
  /\ OnlySucceeded("GenerateRecommendationsEvent", NoJob) =>
       ~store.recommendations.empty
  /\ run_state = "completed" => result.success

\* with the WebSocket layer down, a run over two jobs completed with both
\* matches and no failed call
C16_Witness ==
  /\ ws = "down"
  /\ run_state = "completed"
  /\ failed = EmptyBag
  /\ job_ids = <<"j1", "j2">>
  /\ CopiesIn(good_match("j2"), result.job_matches) = 1
  /\ ~result.recommendations.empty

\* C15: once run_analysis is over, a session that still exists has status
\* "completed" with its results stored, or "failed"; and an analysis_status
\* of "running" always leads to a status of "completed" or "failed" or to
\* the session being gone.
C15_LeavesRunning ==
  /\ []((task = "done" /\ session.exists) =>
          \/ session.analysis_status = "completed" /\ session.has_results
          \/ session.analysis_status = "failed")
  /\ (session.analysis_status = "running") ~>
       (\/ ~session.exists
        \/ session.analysis_status \in {"completed", "failed"})

\* the analysis of a session ran to its StopEvent and the results are stored
C15_Witness ==
  /\ task = "done"
  /\ run_state = "completed"
  /\ session.exists
  /\ session.analysis_status = "completed" /\ session.has_results

Producers(type) == { st \in Steps : type \in returns(st) }
Consumers(type) == { st \in Steps : type \in accepts(st) }
Produced == UNION { returns(st) : st \in Steps }
Accepted == UNION { accepts(st) : st \in Steps }
\* the table read by event type
ConsumersOf == [t \in Produced \cup Accepted |-> Consumers(t)]
TableClosed ==
  /\ \A t \in Produced : t = "StopEvent" \/ Cardinality(Consumers(t)) = 1
  /\ \A t \in Accepted : t = "StartAnalysisEvent" \/ Producers(t) # {}

\* C18: every event type a step is declared to return is accepted by exactly
\* one step or is the StopEvent, every accepted type but the start event's is
\* returned by some step, and the run follows the table: an event waits in
\* the queue of the one step that accepts its type, and only declared types
\* are sent.
C18_StepTableClosed ==
  /\ TableClosed
  /\ \A st \in Steps : \A i \in DOMAIN queues[st] :
       /\ queues[st][i].type \in Accepted
       /\ ConsumersOf[queues[st][i].type] = {st}
  /\ \A k \in BagToSet(sent) :
       k.type = "StartAnalysisEvent" \/ k.type \in Produced

\* a completed run in which an event of every type of the table was sent
C18_Witness ==
  /\ run_state = "completed"
  /\ \A t \in Accepted \cup {"StopEvent"} :
       \E k \in BagToSet(sent) : k.type = t

\* C19: at most one analysis workflow of the session is in progress in every
\* state, and every analyze request handled while analysis_status is
\* "running" is answered 409, adds no background task and leaves analysis_id
\* and analysis_started_at as they were, whatever the order in which the
\* requests and the tasks make their steps.
InProgress == { t \in api_tasks : t.at \in {"scheduled", "workflow"} }
C19_OneAnalysisInProgress ==
  /\ [](Cardinality(InProgress) <= 1)
  /\ [][(/\ api_analyze'.handled # api_analyze.handled
          /\ api_session.exists
          /\ api_session.analysis_status = "running")
          => /\ api_analyze'.response = "409"
             /\ api_tasks' = api_tasks
             /\ api_session'.analysis_id = api_session.analysis_id
             /\ api_session'.analysis_started_at
                  = api_session.analysis_started_at]_vars
\* a request was refused while a second analysis ran and the task of the
\* first was still broadcasting
C19_Witness ==
  /\ api_analyze.response = "409"
  /\ Cardinality(InProgress) = 1
  /\ \E t \in api_tasks : t.at = "broadcast"

\* C20: the session never holds more than MAX_JDS_PER_SESSION job
\* descriptions, and every step an upload request makes while the session
\* holds MAX_JDS_PER_SESSION ends the request with a refusal and leaves the
\* job descriptions as they were, whatever the interleaving of the requests.
Refusals == {"401", "400 maximum", "400 failed to add", "refused"}
C20_AtMostMaxJds ==
  /\ [](Cardinality(api_session.job_descriptions) <= MAX_JDS_PER_SESSION)
  /\ [][\A r \in Uploads :
          (/\ api_uploads'[r] # api_uploads[r]
           /\ Cardinality(api_session.job_descriptions) = MAX_JDS_PER_SESSION)
          => /\ api_uploads'[r] \in Refusals
             /\ api_session'.job_descriptions
                  = api_session.job_descriptions]_vars
\* two uploads passed the check of the route with one place left: one was
\* added, the other refused by add_job_description; a third met the check
C20_Witness ==
  /\ Cardinality(api_session.job_descriptions) = MAX_JDS_PER_SESSION
  /\ \E r, q, p \in Uploads :
       /\ api_uploads[r] = "200"
       /\ api_uploads[q] = "400 failed to add"
       /\ api_uploads[p] = "400 maximum"

\* the observed session's entry, if its window has not run out
Unexpired ==
  /\ Observed \in DOMAIN rl_entries
  /\ rl_now - rl_entries[Observed].window_start < rl_config.window_seconds
\* the checks allowed to the observed session in its current window
GrantedInWindow ==
  IF Unexpired
    THEN Cardinality({ i \in DOMAIN rl_granted :
                         rl_granted[i] >= rl_entries[Observed].window_start })
    ELSE 0

\* C22: no entry's request_count exceeds the limit, and a check of the
\* observed session is allowed exactly when fewer than limit checks were
\* allowed in its current window: the first limit calls of a window return
\* True and every further call False until the window has run out.
C22_WindowAllowsLimit ==
  /\ [](\A sid \in DOMAIN rl_entries :
          rl_entries[sid].request_count <= rl_config.limit)
  /\ [][check_call(Observed)
          => (rl_last'.allowed <=> GrantedInWindow < rl_config.limit)]_vars
\* a check was refused after limit checks had been allowed in the window
C22_Witness ==
  /\ rl_last = [op |-> "check", session_id |-> Observed, allowed |-> FALSE]
  /\ rl_config.limit = MaxLimit
  /\ GrantedInWindow = rl_config.limit

\* C23: in every interval of window_seconds seconds that ends now, at most
\* limit checks of the observed session were allowed (since its last reset).
C23_SlidingWindow == Len(rl_granted) <= rl_config.limit

\* C24: a check of the observed session made when window_seconds or more
\* have passed since its window_start is allowed if limit >= 1, and leaves a
\* window that starts now with request_count 1.
C24_NewWindow ==
  [][(/\ check_call(Observed)
      /\ Observed \in DOMAIN rl_entries
      /\ ~Unexpired
      /\ rl_config.limit >= 1)
      => /\ rl_last'.allowed
         /\ rl_entries'[Observed].request_count = 1
         /\ rl_entries'[Observed].window_start = rl_now]_vars
\* a check opened a new window while a check allowed in the old one is
\* less than window_seconds old
C24_Witness ==
  /\ rl_last = [op |-> "check", session_id |-> Observed, allowed |-> TRUE]
  /\ Observed \in DOMAIN rl_entries
  /\ rl_entries[Observed].request_count = 1
  /\ rl_entries[Observed].window_start = rl_now
  /\ Len(rl_granted) >= 2
  /\ rl_granted[1] < rl_now

\* the entry of a session, if it has one
EntryOf(entries, sid) ==
  IF sid \in DOMAIN entries THEN {entries[sid]} ELSE {}

\* C25: a check or a reset of one session leaves the entry of every other
\* session (its count and its window) and the allowance that session is
\* told as they were.
C25_PerSession ==
  [][\A sid \in RlSessions :
       (check_call(sid) \/ reset_call(sid))
       => \A other \in RlSessions \ {sid} :
            /\ EntryOf(rl_entries', other) = EntryOf(rl_entries, other)
            /\ get_remaining(rl_config, rl_entries', other, rl_now).value
                 = get_remaining(rl_config, rl_entries, other, rl_now).value]_vars
\* both sessions have an entry, with different counts and windows
C25_Witness ==
  /\ DOMAIN rl_entries = RlSessions
  /\ rl_entries["s1"].request_count # rl_entries["s2"].request_count
  /\ rl_entries["s1"].window_start # rl_entries["s2"].window_start
  /\ rl_last.op \in {"check", "reset"}

\* C26: get_remaining of the observed session is limit minus the checks
\* allowed in its current window (limit when it has no entry or the window
\* has run out), it is the "remaining" of get_stats for every session, and a
\* get_remaining call leaves the entries as they were.
C26_Remaining ==
  /\ [](get_remaining(rl_config, rl_entries, Observed, rl_now).value
          = rl_config.limit - GrantedInWindow)
  /\ [](\A sid \in RlSessions :
          get_remaining(rl_config, rl_entries, sid, rl_now).value
            = get_stats(rl_config, rl_entries, sid, rl_now).remaining)
  /\ [][get_remaining_call(Observed) => rl_entries' = rl_entries]_vars
\* get_remaining was asked in a window that has used part of its allowance,
\* and again after a window that had used all of it
C26_Witness ==
  /\ rl_last = [op |-> "get_remaining", session_id |-> Observed,
                allowed |-> FALSE]
  /\ \/ /\ Unexpired
        /\ GrantedInWindow = 1
        /\ rl_config.limit = MaxLimit
     \/ /\ Observed \in DOMAIN rl_entries
        /\ ~Unexpired
        /\ rl_entries[Observed].request_count = rl_config.limit
        /\ rl_config.limit >= 1

\* C27: get_retry_after of the observed session is None when it has no
\* entry, when fewer than limit checks were allowed in its window or when
\* the window has run out; otherwise it is the time until the window ends,
\* more than 0 and at most window_seconds.
C27_RetryAfter ==
  LET retry_after == get_retry_after(rl_config, rl_entries, Observed, rl_now)
  IN  IF ~Unexpired \/ GrantedInWindow < rl_config.limit
        THEN retry_after = {}
        ELSE /\ retry_after = {rl_entries[Observed].window_start
                                + rl_config.window_seconds - rl_now}
             /\ \A seconds \in retry_after :
                  0 < seconds /\ seconds <= rl_config.window_seconds
\* get_retry_after was asked of a limited session part-way through its
\* window
C27_Witness ==
  /\ rl_last = [op |-> "get_retry_after", session_id |-> Observed,
                allowed |-> FALSE]
  /\ rl_config.limit >= 1
  /\ get_retry_after(rl_config, rl_entries, Observed, rl_now) = {1}
  /\ rl_config.window_seconds = MaxWindow

\* C28: after reset or reset_all, whatever count it met, each of the observed
\* session's next limit checks is allowed.
C28_ResetRestores ==
  [][(/\ check_call(Observed)
      /\ rl_after_reset # NotReset
      /\ rl_after_reset.checks < rl_config.limit)
      => rl_last'.allowed]_vars
\* a reset met a session at its limit, and the limit-th check after it was
\* allowed
C28_Witness ==
  /\ rl_last = [op |-> "check", session_id |-> Observed, allowed |-> TRUE]
  /\ rl_config.limit = MaxLimit
  /\ rl_after_reset = [was |-> rl_config.limit, checks |-> rl_config.limit]

\* C21: a get_session that returns a session returns one that is in the
\* store and whose expires_at has not passed, and a get_session made after
\* the expires_at of its id has passed returns None and leaves the id out of
\* the store: the first such lookup removes the session and all later ones
\* find nothing, whatever was updated or created in between.
C21_NoExpiredSession ==
  [][\A session_id \in DOMAIN sm_expires :
       get_session_call(session_id)
       => /\ sm_last'.found
               => /\ sm_now <= sm_expires[session_id]
                  /\ session_id \in DOMAIN sm_sessions
          /\ sm_now > sm_expires[session_id]
               => /\ ~sm_last'.found
                  /\ session_id \notin DOMAIN sm_sessions']_vars
\* a lookup after expiry found nothing, while the object is still held and
\* another session is in the store
C21_Witness ==
  /\ sm_last.op = "get_session"
  /\ ~sm_last.found
  /\ sm_now > sm_expires[sm_last.session_id]
  /\ sm_last.session_id \notin DOMAIN sm_sessions
  /\ \E sess \in sm_held : sess.session_id = sm_last.session_id
  /\ DOMAIN sm_sessions # {}

\* the sessions a client is registered under
RegisteredUnder(c) == { sid \in DOMAIN cm_active : c \in cm_active[sid] }

\* C29: a WebSocket connection for a session id that does not exist or has
\* expired is closed with code 4001 and is in no set of active connections;
\* every registered connection is registered under its own session id, and
\* that session existed, unexpired, when it connected.
C29_OnlyExistingSessions ==
  /\ \A c \in Clients :
       (cm_clients[c].at # "idle" /\ ~cm_clients[c].existed) =>
         /\ cm_clients[c].at = "closed"
         /\ cm_clients[c].close_code = 4001
         /\ RegisteredUnder(c) = {}
  /\ \A c \in Clients :
       RegisteredUnder(c) # {} =>
         /\ RegisteredUnder(c) = {cm_clients[c].session_id}
         /\ cm_clients[c].existed

\* one client is registered under session 1, and the other asked for the
\* same session after it expired and was closed with 4001
C29_Witness ==
  /\ RegisteredUnder("w1") = {1}
  /\ cm_clients["w2"].session_id = 1
  /\ cm_clients["w2"].at = "closed"
  /\ cm_clients["w2"].close_code = 4001
  /\ ~cm_clients["w2"].existed

\* the messages a snapshot of the recorded progress consists of
SnapshotOf(recorded) == [i \in DOMAIN recorded |-> agent_update(recorded[i])]

\* C30: a client that connects to /ws/progress/<session> first receives
\* exactly one agent_update per agent name in the session's agent_progress,
\* with the latest status and progress recorded for that agent: no handler
\* dies in the snapshot, and with the message for the last recorded agent
\* the client has received the recorded entries, one message each, and
\* nothing else.
C30_InitialSnapshot ==
  /\ [](\A c \in Clients : cm_clients[c].at # "crashed")
  /\ [][\A c \in Clients :
          (/\ cm_clients'[c].at = "snapshot"
           /\ cm_clients'[c].cursor # cm_clients[c].cursor
           /\ cm_clients'[c].cursor = cm_clients'[c].size)
            => cm_clients'[c].received =
                 SnapshotOf(sd_agent_progress[cm_clients'[c].session_id])]_vars

\* C31: of the invocations of one collector step that are in progress at once
\* and interleave at their awaits, at most one finds the phase complete: no
\* collector has two invocations that found their condition true, whether
\* the first of them has emitted already or is still suspended in a
\* broadcast.
C31_OneInvocationFires ==
  \A step \in Collectors : fired[step] <= 1 /\ firing[step] <= 1

\* the run is still running, every agent call made has returned, and no
\* event waits, no handler awaits an agent and no collector is suspended:
\* nothing but the timeout can end it
Stalled ==
  /\ Active
  /\ Started
  /\ \A step \in Steps : queues[step] = << >>
  /\ \A step \in WorkSteps : running[step] = EmptyBag
  /\ \A step \in Collectors : firing[step] = 0

\* C32: a run in which all agent calls return reaches the StopEvent without
\* the timeout, for every start input: the run is never left running with
\* nothing queued and nothing in progress.
C32_NoStall == ~Stalled

\* the result fields phase 3 fills, with the handler's work event and the
\* completion finalize records for it
Phase3Fields ==
  { <<"recommendations", "GenerateRecommendationsEvent">>,
    <<"interview_prep", "GenerateInterviewPrepEvent">>,
    <<"market_insights", "GenerateMarketInsightsEvent">> }

\* C33: when finalize has emitted the StopEvent, each of recommendations,
\* interview_prep and market_insights in the result is not None, is the
\* value the store holds under that key, and is a value written by the
\* handler of that name, whose agent call had returned: its agent's data or
\* the {} of a failed call.
C33_ResultFromHandlers ==
  run_state = "completed" =>
    \A f \in Phase3Fields :
      /\ result[f[1]] # NoneVal
      /\ result[f[1]] = store[f[1]]
      /\ result[f[1]] = EmptyDict \/ result[f[1]].for = f[1]
      /\ ReturnedCount(f[2], NoJob) >= 1
      /\ Recorded(f[1], NoJob) >= 1

\* a completed run whose three agents succeeded: the result carries their
\* data, the recommendations made for the gaps of both jobs
C33_Witness ==
  /\ run_state = "completed"
  /\ failed = EmptyBag
  /\ result.recommendations = Data("recommendations", <<"s1", "s2">>)
  /\ result.interview_prep = Data("interview_prep", <<"s1", "s2">>)
  /\ result.market_insights.for = "market_insights"

\* the phase-3 work events that carry skill_gaps and are waiting for a worker
\* or being handled
GapEvents ==
  { ev \in Range(queues.generate_recommendations)
            \cup Range(queues.generate_interview_prep)
            \cup BagToSet(running.generate_recommendations)
            \cup BagToSet(running.generate_interview_prep) : TRUE }

\* C34: the skill_gaps of every GenerateRecommendationsEvent and
\* GenerateInterviewPrepEvent holds each name at most once, holds only names
\* that a match result of the run reported missing, and holds every name
\* that any match result of the run reported.
C34_GapsComplete ==
  \A ev \in GapEvents :
    /\ Injective(ev.data.missing_skills)
    /\ Range(ev.data.missing_skills) \subseteq reported
    /\ reported \subseteq Range(ev.data.missing_skills)

\* the status recorded for an agent name in a session's agent_progress, or
\* "none"
StatusOf(recorded, agent_name) ==
  IF \E i \in DOMAIN recorded : recorded[i].agent_name = agent_name
    THEN (CHOOSE e \in Range(recorded) : e.agent_name = agent_name).status
    ELSE "none"

\* C35: once the status recorded for an agent name in the session's
\* agent_progress is "completed", no step of the run makes it "running" or
\* "pending" again, also with one skill_matcher agent per job id running at
\* the same time.
C35_CompletedStays ==
  [][\A sid \in DOMAIN sd_agent_progress :
       StatusOf(sd_agent_progress[sid], "skill_matcher") = "completed" =>
         StatusOf(sd_agent_progress'[sid], "skill_matcher")
           \notin {"running", "pending"}]_vars

\* C36: for a session that still exists, analysis_complete(success=true) is
\* broadcast only when the run's results are stored and analysis_status is
\* "completed", and analysis_complete(success=false) only when
\* analysis_status is "failed": this is the session at every step that
\* broadcasts the message.
C36_AnnouncedAfterStatus ==
  [][(announced' # announced /\ session'.exists) =>
       /\ Len(announced') = Len(announced) + 1
       /\ IF announced'[Len(announced')].success
            THEN /\ session'.analysis_status = "completed"
                 /\ session'.has_results
            ELSE session'.analysis_status = "failed"]_vars

\* the run completed, its results are stored in the session and success was
\* announced
C36_Witness ==
  /\ announced = << [type |-> "analysis_complete", success |-> TRUE] >>
  /\ run_state = "completed"
  /\ session.exists
  /\ session.analysis_status = "completed"
  /\ session.has_results

\* C37: a session id that was handed out and is no longer in the store,
\* deleted or removed as expired, is not put back by any later step: an
\* update_session by a request or task that still holds the SessionData (as
\* set_resume, add_job_description, set_analysis_results and
\* update_agent_progress end with) leaves the id out.
C37_DeletedStaysOut ==
  [][\A session_id \in DOMAIN sm_expires :
       session_id \notin DOMAIN sm_sessions =>
         session_id \notin DOMAIN sm_sessions']_vars

\* a holder of the SessionData of a session that is gone has just called
\* update_session, while another session is stored
C37_Witness ==
  /\ sm_last.op = "update_session"
  /\ sm_last.session_id \in DOMAIN sm_expires
  /\ sm_last.session_id \notin DOMAIN sm_sessions
  /\ \E sess \in sm_held : sess.session_id = sm_last.session_id
  /\ DOMAIN sm_sessions # {}

\* C38: the number of sessions the SessionManager holds never exceeds
\* MAX_SESSIONS, after any sequence of create_session, get_session and
\* delete_session calls.
C38_AtMostMaxSessions == Cardinality(DOMAIN sm_sessions) <= sm_capacity

\* C39: whenever the websocket_progress handler of a connection has
\* terminated, by a client disconnect, an error or a failed keep-alive ping,
\* the connection is in no set of active connections.
C39_TerminatedUnregistered ==
  \A c \in Clients :
    cm_clients[c].at \in {"closed", "ended", "crashed"} =>
      RegisteredUnder(c) = {}

\* C40: a broadcast that was suspended in a send, whatever connected or
\* disconnected meanwhile, ends without error: on the step that ends it,
\* no connection still registered is left unsent, and if the session is
\* still there its agent_progress holds the update afterwards.
C40_BroadcastCompletes ==
  [][(cm_broadcast # NoBroadcast /\ cm_broadcast' = NoBroadcast) =>
       /\ cm_broadcast.todo \cap connections(cm_broadcast.session_id) = {}
       /\ get_session(sm_sessions, cm_broadcast.session_id, sm_now).found
            # {} =>
            Progress(cm_broadcast.agent_name, cm_broadcast.status,
                     cm_broadcast.progress)
              \in Range(sd_agent_progress'[cm_broadcast.session_id])]_vars

====
